---- MODULE Spec2Model ----
(***************************************************************************)
(* CinemaBot: the query resolution and caching pipeline.                   *)
(*                                                                         *)
(*   utils/cache.py    fingerprint, the two expiring KV files              *)
(*   utils/api.py      the two source adapters                             *)
(*   handlers/search.py  handle_message, the query resolver                *)
(*                                                                         *)
(* Strings are sequences of one-character strings.  Python's None is the   *)
(* sentinel NoneStr where a string is expected.  Time is counted in days   *)
(* (time.time() is in seconds; every comparison of the code is against     *)
(* CACHE_EXPIRY_DAYS * 24 * 60 * 60 seconds).                              *)
(***************************************************************************)
EXTENDS Integers, Sequences, FiniteSets, TLC

VARIABLES
    now,          \* time.time(), in days
    ticks,        \* number of clock advances so far
    movieFile,    \* cache/movie_data.json
    rutubeFile,   \* cache/rutube_links.json
    kvOp,         \* the KV operation performed by the last step
    kvPrev,       \* the operation before it
    kvCount,      \* number of direct KV operations so far
    rt,           \* search_rutube_api calls, per caller
    kp,           \* get_kinopoisk_data calls, per caller
    lastRt,       \* the last finished search_rutube_api call
    apiCount,     \* number of adapter calls started so far
    req,          \* handle_message requests
    settings,     \* LINKS_ON and KP_ON of handlers/commands.py
    keyIn,        \* the arguments given to a function applied on its own
    fs,           \* the poster directory and the temporary poster files
    posterOp,     \* the poster cache operation performed by the last step
    post,         \* handle_message requests from the poster stage on
    proc,         \* the process: its credentials, its start, what it served
    db,           \* cinema_bot.db and the database calls in progress
    host          \* bot.pid and the bot processes of the machine

vars == <<now, ticks, movieFile, rutubeFile, kvOp, kvPrev, kvCount,
          rt, kp, lastRt, apiCount, req, settings, keyIn, fs, posterOp,
          post, proc, db, host>>

----------------------------------------------------------------------------
(* Bounds *)

MaxTicks == 1
MaxKVOps == 2
MaxApiCalls == 2
MaxQueryLen == 4
MaxResults == 3
MaxPosterOps == 3
ClockParts == 2

(* Program constants *)

CACHE_EXPIRY_DAYS == 21
MAX_RUTUBE_LINKS == 3
MAX_SHOWN_LINKS == 5

----------------------------------------------------------------------------
(* Strings *)

NoneStr == <<"<None>">>

IsSpace(c) == c \in {" ", "\t"}

\* str.lower() on one character (non-ASCII characters are written "uXXXX"
\* and occur in lower case only)
Lower(c) ==
    CASE c = "A" -> "a"
      [] c = "B" -> "b"
      [] c = "C" -> "c"
      [] c = "D" -> "d"
      [] c = "E" -> "e"
      [] c = "F" -> "f"
      [] c = "G" -> "g"
      [] c = "H" -> "h"
      [] c = "I" -> "i"
      [] c = "J" -> "j"
      [] c = "K" -> "k"
      [] c = "L" -> "l"
      [] c = "M" -> "m"
      [] c = "N" -> "n"
      [] c = "O" -> "o"
      [] c = "P" -> "p"
      [] c = "Q" -> "q"
      [] c = "R" -> "r"
      [] c = "S" -> "s"
      [] c = "T" -> "t"
      [] c = "U" -> "u"
      [] c = "V" -> "v"
      [] c = "W" -> "w"
      [] c = "X" -> "x"
      [] c = "Y" -> "y"
      [] c = "Z" -> "z"
      [] OTHER -> c

\* str.lower()
str_lower(s) == [i \in 1..Len(s) |-> Lower(s[i])]

\* str.split() with no argument: the maximal runs of non-whitespace
RECURSIVE SplitFrom(_, _, _)
SplitFrom(s, i, cur) ==
    IF i > Len(s)
    THEN IF cur = <<>> THEN <<>> ELSE <<cur>>
    ELSE IF IsSpace(s[i])
         THEN IF cur = <<>>
              THEN SplitFrom(s, i + 1, <<>>)
              ELSE <<cur>> \o SplitFrom(s, i + 1, <<>>)
         ELSE SplitFrom(s, i + 1, Append(cur, s[i]))

str_split(s) == SplitFrom(s, 1, <<>>)

\* ' '.join(words)
RECURSIVE str_join(_)
str_join(words) ==
    IF words = <<>> THEN <<>>
    ELSE IF Len(words) = 1 THEN words[1]
    ELSE words[1] \o <<" ">> \o str_join(Tail(words))

\* hashlib.md5(...).hexdigest(): injective on the strings of the model
md5(s) == <<"md5">> \o s

get_cache_key_nolower(text) == md5(str_join(str_split(text)))

\* get_cache_key; raises AttributeError on None (callers test for it)
get_cache_key(text) == md5(str_join(str_split(str_lower(text))))

----------------------------------------------------------------------------
(* Values *)

QueryA  == <<"A", " ", "b">>
QueryA2 == <<" ", "a", "\t", " ", "B", " ">>
QueryB  == <<"a", "b">>
Queries == {QueryA, QueryA2, QueryB}

NoneVal == <<"<None>">>

\* a dict of get_kinopoisk_data; kinopoiskId 0 stands for None
Movie(id, title, descr, poster) ==
    [kinopoiskId |-> id, nameRu |-> title, description |-> descr,
     posterUrlPreview |-> poster, cache_source |-> FALSE]

MovieSamples == { Movie(301, <<"a", " ", "b">>, <<"d">>, <<"p">>),
                  Movie(302, <<"a", "b">>, NoneStr, NoneStr) }

Link(name, url, cached) == [name |-> name, url |-> url, from_cache |-> cached]

LinkSamples == { <<>>,
                 <<Link(<<"a">>, <<"u">>, FALSE)>>,
                 <<Link(<<"a">>, <<"u">>, FALSE), Link(<<"b">>, <<"v">>, FALSE)>> }

----------------------------------------------------------------------------
(* utils/cache.py: the expiring KV files *)

EmptyDict == <<>>

\* a backing file: "ok" (a JSON object), "missing", "unreadable" (open()
\* fails), "corrupt" (json.load fails)
FileStates == {"ok", "missing", "unreadable", "corrupt"}

EmptyFile == [st |-> "ok", data |-> EmptyDict]

Miss == [hit |-> FALSE, val |-> NoneVal]
Hit(v) == [hit |-> TRUE, val |-> v]

DictSet(cache, key, entry) ==
    [k \in (DOMAIN cache) \cup {key} |-> IF k = key THEN entry ELSE cache[k]]

SaveBodyDropOthers(file, query, entry) ==
    IF query = NoneStr THEN [exc |-> TRUE, file |-> file]
    ELSE IF file.st # "ok" THEN [exc |-> TRUE, file |-> file]
    ELSE [exc |-> FALSE,
          file |-> [st |-> "ok",
                    data |-> DictSet(EmptyDict, get_cache_key(query), entry)]]

SaveBodyNoWrite(file, query, entry) ==
    IF query = NoneStr THEN [exc |-> TRUE, file |-> file]
    ELSE IF file.st # "ok" THEN [exc |-> TRUE, file |-> file]
    ELSE [exc |-> FALSE, file |-> file]

SaveBodyCreates(file, query, entry) ==
    IF query = NoneStr THEN [exc |-> TRUE, file |-> file]
    ELSE IF file.st \in {"unreadable", "corrupt"} THEN [exc |-> TRUE, file |-> file]
    ELSE [exc |-> FALSE,
          file |-> [st |-> "ok",
                    data |-> DictSet(file.data, get_cache_key(query), entry)]]

\* the try block of a save: exc when a statement of it raises
SaveBody(file, query, entry) ==
    IF query = NoneStr THEN [exc |-> TRUE, file |-> file]          \* get_cache_key(None)
    ELSE IF file.st # "ok" THEN [exc |-> TRUE, file |-> file]      \* open(..., 'r') / json.load
    ELSE [exc |-> FALSE,
          file |-> [st |-> "ok",
                    data |-> DictSet(file.data, get_cache_key(query), entry)]]

\* save_movie_to_cache: the new file, the returned flag, whether it raised
save_movie_to_cache(query, movie_data) ==
    LET b == SaveBody(movieFile, query,
                      [timestamp |-> now, data |-> movie_data,
                       original_query |-> query])
    IN  IF b.exc
        THEN [file |-> movieFile, ret |-> FALSE, raised |-> FALSE]   \* except Exception
        ELSE [file |-> b.file, ret |-> TRUE, raised |-> FALSE]

save_rutube_to_cache_unguarded(query, links) ==
    LET b == SaveBody(rutubeFile, query,
                      [timestamp |-> now, links |-> links,
                       original_query |-> query])
    IN  IF b.exc
        THEN [file |-> rutubeFile, ret |-> FALSE, raised |-> TRUE]
        ELSE [file |-> b.file, ret |-> TRUE, raised |-> FALSE]

\* save_rutube_to_cache
save_rutube_to_cache(query, links) ==
    LET b == SaveBody(rutubeFile, query,
                      [timestamp |-> now, links |-> links,
                       original_query |-> query])
    IN  IF b.exc
        THEN [file |-> rutubeFile, ret |-> FALSE, raised |-> FALSE]  \* except Exception
        ELSE [file |-> b.file, ret |-> TRUE, raised |-> FALSE]

ExpiredAtBoundary(cache_time, current_time) ==
    current_time - cache_time >= CACHE_EXPIRY_DAYS

\* the expiry test of both getters
Expired(cache_time, current_time) ==
    current_time - cache_time > CACHE_EXPIRY_DAYS

\* get_movie_from_cache: the returned value (Miss is None), whether it raised
get_movie_from_cache(query) ==
    IF query = NoneStr THEN [ret |-> Miss, raised |-> FALSE]             \* except Exception
    ELSE IF movieFile.st = "missing" THEN [ret |-> Miss, raised |-> FALSE]  \* not os.path.exists
    ELSE IF movieFile.st # "ok" THEN [ret |-> Miss, raised |-> FALSE]    \* except Exception
    ELSE LET cache_key == get_cache_key(query)
             cache == movieFile.data
         IN  IF cache_key \notin DOMAIN cache THEN [ret |-> Miss, raised |-> FALSE]
             ELSE IF Expired(cache[cache_key].timestamp, now)
                  THEN [ret |-> Miss, raised |-> FALSE]
                  ELSE [ret |-> Hit(cache[cache_key].data), raised |-> FALSE]

\* get_rutube_from_cache: a copy of the stored links
get_rutube_from_cache(query) ==
    IF query = NoneStr THEN [ret |-> Miss, raised |-> FALSE]
    ELSE IF rutubeFile.st = "missing" THEN [ret |-> Miss, raised |-> FALSE]
    ELSE IF rutubeFile.st # "ok" THEN [ret |-> Miss, raised |-> FALSE]
    ELSE LET cache_key == get_cache_key(query)
             cache == rutubeFile.data
         IN  IF cache_key \notin DOMAIN cache THEN [ret |-> Miss, raised |-> FALSE]
             ELSE IF Expired(cache[cache_key].timestamp, now)
                  THEN [ret |-> Miss, raised |-> FALSE]
                  ELSE [ret |-> Hit(cache[cache_key].links), raised |-> FALSE]

----------------------------------------------------------------------------
(* Shared steps *)

kvVars  == <<kvOp, kvPrev, kvCount>>
apiVars == <<rt, kp, lastRt, apiCount>>
posterVars == <<fs, posterOp, post, proc, db, host>>
reqVars == <<req, settings, keyIn, posterVars>>

\* a file of the poster directory, named f"{movie_id}_{timestamp}.jpg": the
\* timestamp is time.time(), a float; ts is its part in days and frac the
\* rest, in 1/ClockParts of the unit the file name keeps after the point
PosterFile(id, ts, frac) == [id |-> id, ts |-> ts, frac |-> frac]

\* a path, or None
NoPath == [found |-> FALSE, file |-> PosterFile(0, 0, 0)]
Path(f) == [found |-> TRUE, file |-> f]

\* the state before any poster operation
NoPosterOp == [op |-> "none", id |-> 0, ret |-> NoPath, pre |-> {},
               at |-> 0, time |-> 0, cfrac |-> 0]

\* the poster directory after init_cache_directories; no temporary file
InitPosters ==
    /\ fs = [posters |-> {}, tmp |-> {}]
    /\ posterOp = NoPosterOp
    /\ post = <<>>
    /\ proc = <<>>
    /\ db = <<>>
    /\ host = <<>>

\* handlers/commands.py: both sources are on when the module is loaded
InitSettings == [links_on |-> TRUE, kp_on |-> TRUE]

\* the clock advances by a day, by the expiry window, or by a day more
Tick ==
    /\ ticks < MaxTicks
    /\ \E d \in {1, CACHE_EXPIRY_DAYS, CACHE_EXPIRY_DAYS + 1} : now' = now + d
    /\ ticks' = ticks + 1
    /\ UNCHANGED <<movieFile, rutubeFile, kvVars, apiVars, reqVars>>

----------------------------------------------------------------------------
(* Direct use of the KV store *)

NoOp == [op |-> "none", ns |-> "none", q |-> <<>>, v |-> NoneVal,
         ret |-> Miss, ok |-> FALSE, raised |-> FALSE, at |-> 0, pre |-> "ok"]

KVRecord(op, ns, q, v, ret, ok, raised, pre) ==
    [op |-> op, ns |-> ns, q |-> q, v |-> v, ret |-> ret, ok |-> ok,
     raised |-> raised, at |-> now, pre |-> pre]

KVStep(rec) ==
    /\ kvCount < MaxKVOps
    /\ kvCount' = kvCount + 1
    /\ kvPrev' = kvOp
    /\ kvOp' = rec
    /\ UNCHANGED <<now, ticks, apiVars, reqVars>>

KVSaveMovie(q, v) ==
    LET r == save_movie_to_cache(q, v)
    IN  /\ movieFile' = r.file
        /\ UNCHANGED rutubeFile
        /\ KVStep(KVRecord("put", "movie", q, v, Miss, r.ret, r.raised, movieFile.st))

\* a get that deletes the entry it finds expired
KVGetMovieSweep(q) ==
    LET r == get_movie_from_cache(q)
        k == get_cache_key(q)
    IN  /\ movieFile' =
              IF q # NoneStr /\ movieFile.st = "ok" /\ k \in DOMAIN movieFile.data
                 /\ Expired(movieFile.data[k].timestamp, now)
              THEN [movieFile EXCEPT !.data =
                       [x \in DOMAIN movieFile.data \ {k} |-> movieFile.data[x]]]
              ELSE movieFile
        /\ UNCHANGED rutubeFile
        /\ KVStep(KVRecord("get", "movie", q, NoneVal, r.ret, TRUE, r.raised, movieFile.st))

KVGetMovie(q) ==
    LET r == get_movie_from_cache(q)
    IN  /\ UNCHANGED <<movieFile, rutubeFile>>
        /\ KVStep(KVRecord("get", "movie", q, NoneVal, r.ret, TRUE, r.raised, movieFile.st))

KVSaveRutube(q, l) ==
    LET r == save_rutube_to_cache(q, l)
    IN  /\ rutubeFile' = r.file
        /\ UNCHANGED movieFile
        /\ KVStep(KVRecord("put", "links", q, l, Miss, r.ret, r.raised, rutubeFile.st))

KVGetRutube(q) ==
    LET r == get_rutube_from_cache(q)
    IN  /\ UNCHANGED <<movieFile, rutubeFile>>
        /\ KVStep(KVRecord("get", "links", q, NoneVal, r.ret, TRUE, r.raised, rutubeFile.st))

\* the environment removes or spoils a backing file
DamageMovieFile(kind) ==
    /\ movieFile.st = "ok"
    /\ movieFile' = [st |-> kind, data |-> EmptyDict]
    /\ UNCHANGED rutubeFile
    /\ KVStep(KVRecord("damage", "movie", <<>>, NoneVal, Miss, TRUE, FALSE, "ok"))

DamageRutubeFile(kind) ==
    /\ rutubeFile.st = "ok"
    /\ rutubeFile' = [st |-> kind, data |-> EmptyDict]
    /\ UNCHANGED movieFile
    /\ KVStep(KVRecord("damage", "links", <<>>, NoneVal, Miss, TRUE, FALSE, "ok"))

\* init_cache_directories: creates the files that do not exist
init_cache_directories(file) ==
    IF file.st = "missing" THEN EmptyFile ELSE file

KVInit ==
    /\ movieFile.st = "missing" \/ rutubeFile.st = "missing"
    /\ movieFile' = init_cache_directories(movieFile)
    /\ rutubeFile' = init_cache_directories(rutubeFile)
    /\ KVStep(KVRecord("init", "none", <<>>, NoneVal, Miss, TRUE, FALSE, "missing"))

InitFiles ==
    /\ now = 0
    /\ ticks = 0
    /\ movieFile = EmptyFile
    /\ rutubeFile = EmptyFile

InitKVHist ==
    /\ kvOp = NoOp
    /\ kvPrev = NoOp
    /\ kvCount = 0

InitKV ==
    /\ InitFiles
    /\ InitKVHist
    /\ rt = <<>>
    /\ kp = <<>>
    /\ lastRt = <<>>
    /\ apiCount = 0
    /\ req = <<>>
    /\ settings = InitSettings
    /\ keyIn = <<>>
    /\ InitPosters

NextKV ==
    \/ Tick
    \/ \E q \in Queries, v \in MovieSamples : KVSaveMovie(q, v)
    \/ \E q \in Queries : KVGetMovie(q)
    \/ \E q \in Queries, l \in LinkSamples : KVSaveRutube(q, l)
    \/ \E q \in Queries : KVGetRutube(q)
    \/ \E kind \in FileStates \ {"ok"} : DamageMovieFile(kind)
    \/ \E kind \in FileStates \ {"ok"} : DamageRutubeFile(kind)
    \/ KVInit

SpecKV == InitKV /\ [][NextKV]_vars

----------------------------------------------------------------------------
(* utils/api.py: search_rutube_api *)

Callers == {"c1", "c2"}

\* one element of data['results']; a missing title is '', a null title is
\* NoneStr, a missing or null video_url is ''
RutubeDoc(title, url) == [title |-> title, video_url |-> url]

DocAB == RutubeDoc(<<"a", " ", "b">>, <<"u", "1">>)
DocX  == RutubeDoc(<<"x">>, <<"u", "2">>)
DocY  == RutubeDoc(<<"y">>, <<"u", "3">>)
DocZ  == RutubeDoc(<<"z">>, <<"u", "4">>)
DocNoUrl == RutubeDoc(<<"w">>, <<>>)
DocNullTitle == RutubeDoc(NoneStr, <<"u", "5">>)

\* what the video-search call ends with
RutubeFailures == {"exception", "timeout", "status", "malformed"}

RutubeResults == { <<>>,
                   <<DocAB>>,
                   <<DocX, DocAB>>,
                   <<DocNoUrl, DocX, DocY, DocAB, DocZ>>,
                   <<DocX, DocNullTitle, DocY>> }

RutubeResponses ==
    [kind : RutubeFailures, results : {<<>>}]
        \cup [kind : {"ok"}, results : RutubeResults]

\* the for loop of search_rutube_api: the links collected and the value the
\* variable title is left with (the loop assigns the function's parameter)
RECURSIVE RutubeLoop(_, _, _, _, _)
RutubeLoop(results, i, count, links, title) ==
    IF i > Len(results) THEN [links |-> links, title |-> title]
    ELSE IF count >= MAX_RUTUBE_LINKS THEN [links |-> links, title |-> title]
    ELSE LET t == results[i].title
             u == results[i].video_url
         IN  IF u # <<>>
             THEN IF t = NoneStr
                  THEN [links |-> links, title |-> t]     \* title[:25] raises, caught
                  ELSE RutubeLoop(results, i + 1, count + 1,
                                  Append(links, Link(t, u, FALSE)), t)
             ELSE RutubeLoop(results, i + 1, count, links, t)

\* lines 28-62: the try block around the request
RutubeFetch(title, resp) ==
    IF resp.kind # "ok"
    THEN [links |-> <<>>, title |-> title]               \* except Exception / status
    ELSE RutubeLoop(resp.results, 1, 0, <<>>, title)

MarkFromCache(links) ==
    [i \in 1..Len(links) |-> [links[i] EXCEPT !.from_cache = TRUE]]

IdleRt == [pc |-> "idle", q |-> <<>>, ret |-> <<>>, raised |-> FALSE,
           usedNet |-> FALSE, fromCache |-> FALSE, failed |-> FALSE,
           prev |-> [q |-> <<>>, failed |-> FALSE],
           saved |-> [q |-> <<>>, ok |-> FALSE]]

\* search_rutube_api up to the request: lines 19-39
RtEnter(c, title) ==
    LET cached_links == get_rutube_from_cache(title)
        call == [IdleRt EXCEPT !.q = title, !.prev = lastRt]
    IN  IF cached_links.raised
           THEN /\ rt' = [rt EXCEPT ![c] = [call EXCEPT !.pc = "done", !.raised = TRUE]]
                /\ lastRt' = [q |-> title, failed |-> FALSE]
           ELSE IF cached_links.ret.hit
           THEN /\ rt' = [rt EXCEPT ![c] =
                            [call EXCEPT !.pc = "done", !.fromCache = TRUE,
                                         !.ret = MarkFromCache(cached_links.ret.val)]]
                /\ lastRt' = [q |-> title, failed |-> FALSE]
           ELSE /\ rt' = [rt EXCEPT ![c] = [call EXCEPT !.pc = "net", !.usedNet = TRUE]]
                /\ UNCHANGED lastRt

\* a caller calls search_rutube_api(title)
RtCall(c, title) ==
    /\ rt[c].pc \in {"idle", "done"}
    /\ apiCount < MaxApiCalls
    /\ apiCount' = apiCount + 1
    /\ RtEnter(c, title)
    /\ UNCHANGED <<now, ticks, movieFile, rutubeFile, kvVars, kp, reqVars>>

\* search_rutube_api from the response on: lines 40-69
RtResponse(c, resp) ==
    /\ rt[c].pc = "net"
    /\ LET f == RutubeFetch(rt[c].q, resp)
           s == save_rutube_to_cache(f.title, f.links)
       IN  /\ rutubeFile' = s.file
           /\ rt' = [rt EXCEPT ![c] =
                       [@ EXCEPT !.pc = "done", !.ret = f.links,
                                 !.raised = s.raised,
                                 !.failed = (resp.kind # "ok"),
                                 !.saved = [q |-> f.title, ok |-> s.ret]]]
           /\ lastRt' = [q |-> rt[c].q, failed |-> (resp.kind # "ok")]
    /\ UNCHANGED <<now, ticks, movieFile, kvVars, kp, apiCount, reqVars>>

----------------------------------------------------------------------------
(* utils/api.py: find_exact_match *)

\* str.strip()
RECURSIVE str_lstrip(_)
str_lstrip(s) ==
    IF s = <<>> THEN s
    ELSE IF IsSpace(s[1]) THEN str_lstrip(Tail(s)) ELSE s

RECURSIVE str_rstrip(_)
str_rstrip(s) ==
    IF s = <<>> THEN s
    ELSE IF IsSpace(s[Len(s)]) THEN str_rstrip(SubSeq(s, 1, Len(s) - 1)) ELSE s

str_strip(s) == str_rstrip(str_lstrip(s))

\* a in s, for strings
str_contains(s, a) ==
    \E i \in 0..(Len(s) - Len(a)) : SubSeq(s, i + 1, i + Len(a)) = a

SeqToSet(q) == { q[i] : i \in 1..Len(q) }

\* special_titles of find_exact_match: the keys and their alternates
SpecialKeys == <<<<"v", "e", "n", "o", "m">>,
                 <<"u0432", "u0435", "u043d", "u043e", "u043c">>,
                 <<"a", "v", "a", "t", "a", "r">>,
                 <<"u0430", "u0432", "u0430", "u0442", "u0430", "u0440">>,
                 <<"s", "p", "i", "d", "e", "r", "-", "m", "a", "n">>,
                 <<"u0447", "u0435", "u043b", "u043e", "u0432", "u0435", "u043a", "-", "u043f", "u0430", "u0443", "u043a">>,
                 <<"s", "p", "i", "d", "e", "r", "m", "a", "n">>,
                 <<"m", "a", "t", "r", "i", "x">>,
                 <<"u043c", "u0430", "u0442", "u0440", "u0438", "u0446", "u0430">>,
                 <<"s", "t", "a", "r", " ", "w", "a", "r", "s">>,
                 <<"u0437", "u0432", "u0435", "u0437", "u0434", "u043d", "u044b", "u0435", " ", "u0432", "u043e", "u0439", "u043d", "u044b">>,
                 <<"a", "v", "e", "n", "g", "e", "r", "s">>,
                 <<"u043c", "u0441", "u0442", "u0438", "u0442", "u0435", "u043b", "u0438">>,
                 <<"t", "e", "r", "m", "i", "n", "a", "t", "o", "r">>,
                 <<"u0442", "u0435", "u0440", "u043c", "u0438", "u043d", "u0430", "u0442", "u043e", "u0440">>>>

SpecialAlts == <<<<<<"u0432", "u0435", "u043d", "u043e", "u043c">>, <<"v", "e", "n", "o", "m">>>>,
                 <<<<"u0432", "u0435", "u043d", "u043e", "u043c">>, <<"v", "e", "n", "o", "m">>>>,
                 <<<<"u0430", "u0432", "u0430", "u0442", "u0430", "u0440">>, <<"a", "v", "a", "t", "a", "r">>>>,
                 <<<<"u0430", "u0432", "u0430", "u0442", "u0430", "u0440">>, <<"a", "v", "a", "t", "a", "r">>>>,
                 <<<<"u0447", "u0435", "u043b", "u043e", "u0432", "u0435", "u043a", "-", "u043f", "u0430", "u0443", "u043a">>, <<"s", "p", "i", "d", "e", "r", "-", "m", "a", "n">>, <<"s", "p", "i", "d", "e", "r", "m", "a", "n">>>>,
                 <<<<"u0447", "u0435", "u043b", "u043e", "u0432", "u0435", "u043a", "-", "u043f", "u0430", "u0443", "u043a">>, <<"s", "p", "i", "d", "e", "r", "-", "m", "a", "n">>, <<"s", "p", "i", "d", "e", "r", "m", "a", "n">>>>,
                 <<<<"u0447", "u0435", "u043b", "u043e", "u0432", "u0435", "u043a", "-", "u043f", "u0430", "u0443", "u043a">>, <<"s", "p", "i", "d", "e", "r", "-", "m", "a", "n">>, <<"s", "p", "i", "d", "e", "r", "m", "a", "n">>>>,
                 <<<<"u043c", "u0430", "u0442", "u0440", "u0438", "u0446", "u0430">>, <<"m", "a", "t", "r", "i", "x">>>>,
                 <<<<"u043c", "u0430", "u0442", "u0440", "u0438", "u0446", "u0430">>, <<"m", "a", "t", "r", "i", "x">>>>,
                 <<<<"u0437", "u0432", "u0435", "u0437", "u0434", "u043d", "u044b", "u0435", " ", "u0432", "u043e", "u0439", "u043d", "u044b">>, <<"s", "t", "a", "r", " ", "w", "a", "r", "s">>>>,
                 <<<<"u0437", "u0432", "u0435", "u0437", "u0434", "u043d", "u044b", "u0435", " ", "u0432", "u043e", "u0439", "u043d", "u044b">>, <<"s", "t", "a", "r", " ", "w", "a", "r", "s">>>>,
                 <<<<"u043c", "u0441", "u0442", "u0438", "u0442", "u0435", "u043b", "u0438">>, <<"a", "v", "e", "n", "g", "e", "r", "s">>>>,
                 <<<<"u043c", "u0441", "u0442", "u0438", "u0442", "u0435", "u043b", "u0438">>, <<"a", "v", "e", "n", "g", "e", "r", "s">>>>,
                 <<<<"u0442", "u0435", "u0440", "u043c", "u0438", "u043d", "u0430", "u0442", "u043e", "u0440">>, <<"t", "e", "r", "m", "i", "n", "a", "t", "o", "r">>>>,
                 <<<<"u0442", "u0435", "u0440", "u043c", "u0438", "u043d", "u0430", "u0442", "u043e", "u0440">>, <<"t", "e", "r", "m", "i", "n", "a", "t", "o", "r">>>>>>

\* special_titles.get(query_clean, [query_clean])
AltTitles(query_clean) ==
    IF \E i \in 1..Len(SpecialKeys) : SpecialKeys[i] = query_clean
    THEN SeqToSet(SpecialAlts[CHOOSE i \in 1..Len(SpecialKeys) :
                                  SpecialKeys[i] = query_clean])
    ELSE {query_clean}

\* result.get('title', '').lower().strip()
TitleRu(result) == str_strip(str_lower(result.title))

\* the position of the first element of results satisfying P, 0 if none
FirstIndex(results, P(_)) ==
    IF \E i \in 1..Len(results) : P(results[i])
    THEN CHOOSE i \in 1..Len(results) :
            P(results[i]) /\ \A j \in 1..(i - 1) : ~P(results[j])
    ELSE 0

\* find_exact_match: idx is the position of the result returned (0 for
\* None); raised when .lower() is applied to a null title.  The results of
\* search_kinopoisk carry no 'nameEn' key, so title_en is ''.
find_exact_match(search_results, query) ==
    LET query_clean == str_strip(str_lower(query))
        alt_titles == AltTitles(query_clean)
        IsNull(r) == r.title = NoneStr
        Exact(r) == r.title # NoneStr
                    /\ \E alt \in alt_titles : alt = TitleRu(r) \/ alt = <<>>
        Word(r) == \E alt \in alt_titles : alt \in SeqToSet(str_split(TitleRu(r)))
        Sub(r) == \E alt \in alt_titles : str_contains(TitleRu(r), alt)
        firstNull == FirstIndex(search_results, IsNull)
        firstExact == FirstIndex(search_results, Exact)
        firstWord == FirstIndex(search_results, Word)
        firstSub == FirstIndex(search_results, Sub)
    IN  IF firstExact # 0 /\ (firstNull = 0 \/ firstExact < firstNull)
        THEN [idx |-> firstExact, raised |-> FALSE]
        ELSE IF firstNull # 0 THEN [idx |-> 0, raised |-> TRUE]
        ELSE IF firstWord # 0 THEN [idx |-> firstWord, raised |-> FALSE]
        ELSE IF firstSub # 0 THEN [idx |-> firstSub, raised |-> FALSE]
        ELSE [idx |-> 0, raised |-> FALSE]

\* get_kinopoisk_data, lines 173-181: the exact match, else the first result
SelectedIndex(search_results, movie_title) ==
    LET exact_match == find_exact_match(search_results, movie_title)
    IN  IF exact_match.idx # 0 THEN exact_match.idx ELSE 1

----------------------------------------------------------------------------
(* utils/api.py: search_kinopoisk, get_film_details, get_kinopoisk_data *)

AbsentStr == <<"<absent>">>

Truthy(x) == x \notin {NoneStr, AbsentStr, <<>>}

\* 'Описание отсутствует'
DefaultDescription == <<"n", "o", "n", "e">>

\* one element of data['films']: a key may be missing (AbsentStr; filmId -1)
\* or null (NoneStr; filmId 0)
Film(nameRu, nameEn, filmId, description, posterUrl) ==
    [nameRu |-> nameRu, nameEn |-> nameEn, filmId |-> filmId,
     description |-> description, posterUrl |-> posterUrl]

FilmAB   == Film(<<"A", " ", "b">>, AbsentStr, 301, <<"d">>, <<"p">>)
FilmABC  == Film(<<"a", " ", "b", " ", "c">>, AbsentStr, 302, NoneStr, AbsentStr)
FilmX    == Film(AbsentStr, <<"x">>, 303, AbsentStr, <<"p">>)
FilmNullTitle == Film(NoneStr, <<"a", " ", "b">>, 304, <<"d">>, <<"p">>)
FilmNoId == Film(<<"a", " ", "b">>, AbsentStr, -1, <<"d">>, <<"p">>)
FilmNullId == Film(<<"a", " ", "b">>, AbsentStr, 0, <<"d">>, <<"p">>)
FilmAnon == Film(AbsentStr, AbsentStr, 0, AbsentStr, AbsentStr)

KpSearchFailures == {"no_token", "exception", "status"}

KpFilmLists == { <<>>,
                 <<FilmAB>>,
                 <<FilmABC, FilmX, FilmAB>>,
                 <<FilmX, FilmABC>>,
                 <<FilmNullTitle>>,
                 <<FilmAB, FilmNullTitle>>,
                 <<FilmAB, FilmNoId>>,
                 <<FilmNullId>>,
                 <<FilmAnon>> }

KpSearchResponses ==
    [kind : KpSearchFailures, films : {<<>>}]
        \cup [kind : {"ok"}, films : KpFilmLists]

\* the dict search_kinopoisk builds for one film (lines 108-116)
SearchResult(film) ==
    [title |-> IF film.nameRu # AbsentStr THEN film.nameRu
               ELSE IF film.nameEn # AbsentStr THEN film.nameEn ELSE <<>>,
     filmId |-> film.filmId,
     description |-> IF film.description = AbsentStr THEN <<>> ELSE film.description,
     posterUrl |-> IF film.posterUrl = AbsentStr THEN <<>> ELSE film.posterUrl]

\* search_kinopoisk: the list returned, <<>> standing for None as well (the
\* caller tests "not search_results")
search_kinopoisk(resp) ==
    IF resp.kind # "ok" THEN <<>>                        \* no token, except, status
    ELSE IF \E i \in 1..Len(resp.films) : resp.films[i].filmId = -1
         THEN <<>>                                      \* film['filmId']: KeyError, caught
         ELSE [i \in 1..Len(resp.films) |-> SearchResult(resp.films[i])]

\* what the details call ends with: None, or the document
Details(description, posterUrl, posterUrlPreview) ==
    [kind |-> "ok", description |-> description, posterUrl |-> posterUrl,
     posterUrlPreview |-> posterUrlPreview]

NoDetails == [kind |-> "none", description |-> AbsentStr, posterUrl |-> AbsentStr,
              posterUrlPreview |-> AbsentStr]

KpDetailsResponses == { NoDetails,
                        Details(<<"D">>, <<"P">>, AbsentStr),
                        Details(NoneStr, NoneStr, <<"q">>),
                        Details(AbsentStr, AbsentStr, AbsentStr) }

EmptyRecord == [empty |-> TRUE, rec |-> NoneVal]
Record(m)   == [empty |-> FALSE, rec |-> m]

\* lines 183-196: the output built from the selected search result
BasicOutput(movie) ==
    Movie(movie.filmId, movie.title, movie.description, movie.posterUrl)

\* lines 201-219: the output updated from the details
WithDetails(out, details) ==
    [out EXCEPT
       !.description = IF details.description = AbsentStr
                       THEN DefaultDescription ELSE details.description,
       !.posterUrlPreview = IF Truthy(details.posterUrl) THEN details.posterUrl
                            ELSE IF Truthy(details.posterUrlPreview)
                                 THEN details.posterUrlPreview
                                 ELSE @]

IdleKp == [pc |-> "idle", q |-> <<>>, ret |-> EmptyRecord, raised |-> FALSE,
           usedNet |-> FALSE, fromCache |-> FALSE, failed |-> FALSE,
           out |-> NoneVal, saved |-> [did |-> FALSE, ok |-> FALSE]]

\* get_kinopoisk_data going to the catalog without asking the cache
KpEnterNoCache(c, movie_title) ==
    kp' = [kp EXCEPT ![c] = [IdleKp EXCEPT !.q = movie_title, !.pc = "search",
                                           !.usedNet = TRUE]]

\* get_kinopoisk_data up to the search request: lines 160-168
KpEnter(c, movie_title) ==
    LET cached_data == get_movie_from_cache(movie_title)
        call == [IdleKp EXCEPT !.q = movie_title]
    IN  IF cached_data.raised
           THEN kp' = [kp EXCEPT ![c] = [call EXCEPT !.pc = "done", !.raised = TRUE]]
           ELSE IF cached_data.ret.hit
           THEN kp' = [kp EXCEPT ![c] =
                         [call EXCEPT !.pc = "done", !.fromCache = TRUE,
                             !.ret = Record([cached_data.ret.val
                                               EXCEPT !.cache_source = TRUE])]]
           ELSE kp' = [kp EXCEPT ![c] = [call EXCEPT !.pc = "search", !.usedNet = TRUE]]

\* a caller calls get_kinopoisk_data(movie_title)
KpCall(c, movie_title) ==
    /\ kp[c].pc \in {"idle", "done"}
    /\ apiCount < MaxApiCalls
    /\ apiCount' = apiCount + 1
    /\ KpEnter(c, movie_title)
    /\ UNCHANGED <<now, ticks, movieFile, rutubeFile, kvVars, rt, lastRt, reqVars>>

\* the end of get_kinopoisk_data with no test of kinopoiskId
KpFinishAlways(c, out) ==
    LET s == save_movie_to_cache(kp[c].q, out)
    IN  /\ movieFile' = s.file
        /\ kp' = [kp EXCEPT ![c] =
                    [@ EXCEPT !.pc = "done", !.ret = Record(out), !.out = NoneVal,
                              !.raised = s.raised,
                              !.saved = [did |-> TRUE, ok |-> s.ret]]]

\* lines 224-231: save when there is an identifier, and return
KpFinish(c, out) ==
    LET s == IF out.kinopoiskId # 0
             THEN save_movie_to_cache(kp[c].q, out)
             ELSE [file |-> movieFile, ret |-> FALSE, raised |-> FALSE]
    IN  /\ movieFile' = s.file
        /\ kp' = [kp EXCEPT ![c] =
                    [@ EXCEPT !.pc = "done", !.ret = Record(out), !.out = NoneVal,
                              !.raised = s.raised,
                              !.saved = [did |-> out.kinopoiskId # 0, ok |-> s.ret]]]

\* get_kinopoisk_data from the search response to the details request
KpSearchResponse(c, resp) ==
    /\ kp[c].pc = "search"
    /\ LET search_results == search_kinopoisk(resp)
           m == find_exact_match(search_results, kp[c].q)
           movie == search_results[SelectedIndex(search_results, kp[c].q)]
       IN  IF search_results = <<>>
           THEN /\ kp' = [kp EXCEPT ![c] = [@ EXCEPT !.pc = "done", !.ret = EmptyRecord,
                                                     !.failed = TRUE]]
                /\ UNCHANGED movieFile
           ELSE IF m.raised
           THEN /\ kp' = [kp EXCEPT ![c] = [@ EXCEPT !.pc = "done", !.ret = EmptyRecord,
                                                     !.raised = TRUE]]
                /\ UNCHANGED movieFile
           ELSE IF movie.filmId # 0
           THEN /\ kp' = [kp EXCEPT ![c] = [@ EXCEPT !.pc = "details",
                                                     !.out = BasicOutput(movie)]]
                /\ UNCHANGED movieFile
           ELSE KpFinish(c, BasicOutput(movie))
    /\ UNCHANGED <<now, ticks, rutubeFile, kvVars, rt, lastRt, apiCount, reqVars>>

\* get_kinopoisk_data from the details response on: lines 200-231
KpDetailsResponse(c, details) ==
    /\ kp[c].pc = "details"
    /\ IF details.kind = "ok"
       THEN KpFinish(c, WithDetails(kp[c].out, details))
       ELSE KpFinish(c, kp[c].out)
    /\ UNCHANGED <<now, ticks, rutubeFile, kvVars, rt, lastRt, apiCount, reqVars>>

----------------------------------------------------------------------------
(* The two adapters called concurrently *)

\* the environment removes or spoils a backing file
SpoilMovieFile(kind) ==
    /\ movieFile.st = "ok"
    /\ movieFile' = [st |-> kind, data |-> EmptyDict]
    /\ UNCHANGED <<now, ticks, rutubeFile, kvVars, apiVars, reqVars>>

SpoilRutubeFile(kind) ==
    /\ rutubeFile.st = "ok"
    /\ rutubeFile' = [st |-> kind, data |-> EmptyDict]
    /\ UNCHANGED <<now, ticks, movieFile, kvVars, apiVars, reqVars>>

InitApiCalls ==
    /\ rt = [c \in Callers |-> IdleRt]
    /\ kp = [c \in Callers |-> IdleKp]
    /\ lastRt = [q |-> <<>>, failed |-> FALSE]
    /\ apiCount = 0

InitApi ==
    /\ InitFiles
    /\ InitKVHist
    /\ InitApiCalls
    /\ req = <<>>
    /\ settings = InitSettings
    /\ keyIn = <<>>
    /\ InitPosters

\* search_rutube_api called again and again by one caller
NextRt ==
    \/ Tick
    \/ \E q \in Queries : RtCall("c1", q)
    \/ \E resp \in RutubeResponses : RtResponse("c1", resp)
    \/ \E kind \in FileStates \ {"ok"} : SpoilRutubeFile(kind)

SpecRt == InitApi /\ [][NextRt]_vars

\* get_kinopoisk_data called again and again by one caller
NextKp ==
    \/ Tick
    \/ \E q \in Queries : KpCall("c1", q)
    \/ \E resp \in KpSearchResponses : KpSearchResponse("c1", resp)
    \/ \E d \in KpDetailsResponses : KpDetailsResponse("c1", d)
    \/ \E kind \in FileStates \ {"ok"} : SpoilMovieFile(kind)

SpecKp == InitApi /\ [][NextKp]_vars

\* both adapters called by concurrent callers, the providers answering
NextPut ==
    \/ \E c \in Callers, q \in Queries : RtCall(c, q)
    \/ \E c \in Callers, res \in RutubeResults :
          RtResponse(c, [kind |-> "ok", results |-> res])
    \/ \E c \in Callers, q \in Queries : KpCall(c, q)
    \/ \E c \in Callers, films \in KpFilmLists :
          KpSearchResponse(c, [kind |-> "ok", films |-> films])
    \/ \E c \in Callers, d \in KpDetailsResponses : KpDetailsResponse(c, d)

SpecPut == InitApi /\ [][NextPut]_vars

----------------------------------------------------------------------------
(* utils/cache.py: the poster blob store *)

\* float(filename.split('_')[1].split('.')[0]): what the name gives back of
\* the timestamp is the part before the first point
NameTimestamp(f) == f.ts

\* line 180: current_time - timestamp > CACHE_EXPIRY_DAYS * 24 * 60 * 60, the
\* current time being now + cfrac / ClockParts
PosterExpired(f, cfrac) ==
    ClockParts * (now - NameTimestamp(f)) + cfrac > ClockParts * CACHE_EXPIRY_DAYS

\* get_cached_poster_path(movie_id): first is the file of movie_id that
\* os.listdir yields first (its order is arbitrary)
get_cached_poster_path(posters, movie_id, first, cfrac) ==
    IF movie_id = 0 THEN [ret |-> NoPath, posters |-> posters]
    ELSE IF \A f \in posters : f.id # movie_id
    THEN [ret |-> NoPath, posters |-> posters]
    ELSE IF PosterExpired(first, cfrac)
    THEN [ret |-> NoPath, posters |-> posters \ {first}]     \* os.remove
    ELSE [ret |-> Path(first), posters |-> posters]

\* the files os.listdir may yield first for movie_id
FirstListed(posters, movie_id) ==
    IF \E f \in posters : f.id = movie_id
    THEN { f \in posters : f.id = movie_id }
    ELSE { PosterFile(0, 0, 0) }

\* save_poster_to_cache(movie_id, poster_data): ok is whether the file could
\* be written
save_poster_to_cache(posters, movie_id, frac, ok) ==
    IF movie_id = 0 \/ ~ok THEN [ret |-> NoPath, posters |-> posters]
    ELSE LET f == PosterFile(movie_id, now, frac)
         IN  [ret |-> Path(f), posters |-> posters \cup {f}]

ClockFracs == 0..(ClockParts - 1)

MovieIds == {0, 301, 302}

PosterStep(op, id, ret, cfrac) ==
    /\ posterOp.at < MaxPosterOps
    /\ posterOp' = [op |-> op, id |-> id, ret |-> ret, pre |-> fs.posters,
                    at |-> posterOp.at + 1, time |-> now, cfrac |-> cfrac]

\* a caller saves a poster
PosterSave(movie_id, frac, ok) ==
    /\ LET s == save_poster_to_cache(fs.posters, movie_id, frac, ok)
       IN  /\ fs' = [fs EXCEPT !.posters = s.posters]
           /\ PosterStep("save", movie_id, s.ret, frac)
    /\ UNCHANGED <<now, ticks, movieFile, rutubeFile, kvVars, apiVars, req, settings,
                   keyIn, post, proc, db, host>>

\* a caller asks for the cached poster
PosterGet(movie_id, cfrac) ==
    /\ \E first \in FirstListed(fs.posters, movie_id) :
          LET g == get_cached_poster_path(fs.posters, movie_id, first, cfrac)
          IN  /\ fs' = [fs EXCEPT !.posters = g.posters]
              /\ PosterStep("get", movie_id, g.ret, cfrac)
    /\ UNCHANGED <<now, ticks, movieFile, rutubeFile, kvVars, apiVars, req, settings,
                   keyIn, post, proc, db, host>>

InitPoster ==
    /\ InitFiles
    /\ InitKVHist
    /\ rt = <<>>
    /\ kp = <<>>
    /\ lastRt = <<>>
    /\ apiCount = 0
    /\ req = <<>>
    /\ settings = InitSettings
    /\ keyIn = <<>>
    /\ InitPosters

NextPoster ==
    \/ Tick
    \/ \E id \in MovieIds, frac \in ClockFracs, ok \in BOOLEAN : PosterSave(id, frac, ok)
    \/ \E id \in MovieIds, cfrac \in ClockFracs : PosterGet(id, cfrac)

SpecPoster == InitPoster /\ [][NextPoster]_vars

----------------------------------------------------------------------------
(* handlers/search.py: handle_message; handlers/commands.py: the toggles *)

\* utils/helpers.py, is_command_without_slash
command_keywords ==
    { <<"c", "l", "e", "a", "r", "_", "c", "a", "c", "h", "e">>,
      <<"c", "l", "e", "a", "r", "_", "p", "o", "s", "t", "e", "r", "s">>,
      <<"c", "l", "e", "a", "r", "_", "m", "o", "v", "i", "e", "_", "d", "a", "t", "a">>,
      <<"c", "l", "e", "a", "r", "_", "r", "u", "t", "u", "b", "e">>,
      <<"s", "t", "a", "r", "t">>,
      <<"h", "e", "l", "p">>,
      <<"s", "e", "t", "t", "i", "n", "g", "s">>,
      <<"h", "i", "s", "t", "o", "r", "y">>,
      <<"s", "t", "a", "t", "s">>,
      <<"t", "u", "r", "n", "_", "l", "i", "n", "k", "s">>,
      <<"t", "u", "r", "n", "_", "k", "p">> }

is_command_exact(text) == text \in command_keywords

\* text.strip().lower() in command_keywords
is_command_without_slash(text) == str_lower(str_strip(text)) \in command_keywords

\* html.escape(s): & < > " ' are replaced
html_escape(s) ==
    [i \in 1..Len(s) |->
        CASE s[i] = "&" -> "&amp;"
          [] s[i] = "<" -> "&lt;"
          [] s[i] = ">" -> "&gt;"
          [] s[i] = "\"" -> "&quot;"
          [] s[i] = "'" -> "&#x27;"
          [] OTHER -> s[i]]

\* lines 176-177: the scheme is added to a url that lacks it
LinkUrl(url) ==
    IF Len(url) >= 4 /\ SubSeq(url, 1, 4) = <<"h", "t", "t", "p">>
    THEN url ELSE <<"https://">> \o url

\* video_links[:5]
ShownLinks(video_links) ==
    SubSeq(video_links, 1, IF Len(video_links) < MAX_SHOWN_LINKS
                           THEN Len(video_links) ELSE MAX_SHOWN_LINKS)

\* lines 171-180: the numbered text links
RenderLinks(video_links) ==
    [i \in 1..Len(ShownLinks(video_links)) |->
        [name |-> html_escape(video_links[i].name), url |-> LinkUrl(video_links[i].url)]]

\* the parts of final_response: the film block, the note on links, the links
NoInfo == [shown |-> FALSE, title |-> <<>>, description |-> <<>>]

NoResponse == [info |-> NoInfo, note |-> "", links |-> <<>>, off |-> FALSE]

\* lines 142-158 raise when html.escape is given None
RenderRaises(kinopoisk_data) ==
    /\ ~kinopoisk_data.empty
    /\ \/ kinopoisk_data.rec.nameRu = NoneStr
       \/ kinopoisk_data.rec.description = NoneStr

\* lines 137-197: final_response and image_url
Render(kinopoisk_data, video_links, links_on) ==
    [info |-> IF kinopoisk_data.empty THEN NoInfo
              ELSE [shown |-> TRUE,
                    title |-> html_escape(kinopoisk_data.rec.nameRu),
                    description |-> html_escape(kinopoisk_data.rec.description)],
     note |-> IF links_on /\ video_links = <<>> /\ kinopoisk_data.empty
              THEN "nothing_found"
              ELSE IF links_on /\ video_links = <<>> THEN "no_links" ELSE "",
     links |-> RenderLinks(video_links),
     off |-> kinopoisk_data.empty /\ ~links_on]

MsgTexts == { NoneStr,
              <<" ">>,
              <<" ", "H", "e", "l", "p">>,
              <<"a", "b">>,
              <<"A", " ", "b", " ">> }

IdleReq == [pc |-> "idle", query |-> <<>>,
            links_on |-> FALSE, kp_on |-> FALSE,
            kinopoisk_data |-> EmptyRecord, video_links |-> <<>>,
            collected |-> FALSE, response |-> NoResponse, image_url |-> NoneStr,
            raised |-> FALSE, dbFailed |-> FALSE,
            answers |-> <<>>, searchCalls |-> 0, searches |-> 0,
            movieCalls |-> 0, movies |-> 0,
            \* the loading_msg.delete() calls made so far: they are all
            \* past line 373, where the response is sent
            deletes |-> 0]

ReqSet(r, new) == req' = [req EXCEPT ![r] = new]

\* lines 55-83: the gates, up to the call of db.add_search
ReqReceive(r, text, hasUser) ==
    /\ req[r].pc = "idle"
    /\ LET query == str_strip(text)
           m == req[r]
       IN  IF text = NoneStr \/ query = <<>>
           THEN ReqSet(r, [m EXCEPT !.pc = "done"])
           ELSE IF is_command_without_slash(query)
           THEN ReqSet(r, [m EXCEPT !.pc = "done", !.query = query,
                                    !.answers = Append(@, "command_hint")])
           ELSE IF ~hasUser
           THEN ReqSet(r, [m EXCEPT !.pc = "done", !.query = query,
                                    !.answers = Append(@, "no_user")])
           ELSE ReqSet(r, [m EXCEPT !.pc = "add_search", !.query = query,
                                    !.searchCalls = @ + 1])
    /\ UNCHANGED <<now, ticks, movieFile, rutubeFile, kvVars, apiVars, settings, keyIn,
                   posterVars>>

AddSearchDoneNoRecord(m, ok) ==
    IF ok THEN [m EXCEPT !.pc = "loading"]
    ELSE [m EXCEPT !.pc = "crashed", !.raised = TRUE, !.dbFailed = TRUE]

\* line 83: db.add_search has written the record, or has raised
AddSearchDone(m, ok) ==
    IF ok THEN [m EXCEPT !.pc = "loading", !.searches = @ + 1]
    ELSE [m EXCEPT !.pc = "crashed", !.raised = TRUE, !.dbFailed = TRUE]

\* lines 83-86: db.add_search returns or raises; the loading message is sent
ReqAddSearch(r, ok) ==
    /\ req[r].pc = "add_search"
    /\ ReqSet(r, AddSearchDone(req[r], ok))
    /\ UNCHANGED <<now, ticks, movieFile, rutubeFile, kvVars, apiVars, settings, keyIn,
                   posterVars>>

AllDisabledNever(links_on, kp_on) == FALSE

\* line 93: if not links_on and not kp_on
AllDisabled(links_on, kp_on) == ~links_on /\ ~kp_on

\* lines 86-116: the toggles are read, the adapter tasks are created
ReqLaunch(r) ==
    /\ req[r].pc = "loading"
    /\ LET links_on == settings.links_on
           kp_on == settings.kp_on
           m == [req[r] EXCEPT !.answers = Append(@, "loading"),
                               !.links_on = links_on, !.kp_on = kp_on]
       IN  IF AllDisabled(links_on, kp_on)
           THEN /\ ReqSet(r, [m EXCEPT !.pc = "done",
                                       !.answers = Append(@, "disabled")])
                /\ UNCHANGED <<rt, kp>>
           ELSE /\ ReqSet(r, [m EXCEPT !.pc = "gather"])
                /\ rt' = [rt EXCEPT ![r] =
                            IF links_on THEN [IdleRt EXCEPT !.pc = "created"] ELSE @]
                /\ kp' = [kp EXCEPT ![r] =
                            IF kp_on THEN [IdleKp EXCEPT !.pc = "created"] ELSE @]
    /\ UNCHANGED <<now, ticks, movieFile, rutubeFile, kvVars, lastRt, apiCount,
                   settings, keyIn, posterVars>>

\* the task search_rutube_api(query) starts running
TaskRt(r) ==
    /\ req[r].pc = "gather"
    /\ rt[r].pc = "created"
    /\ RtEnter(r, req[r].query)
    /\ UNCHANGED <<now, ticks, movieFile, rutubeFile, kvVars, kp, apiCount, reqVars>>

\* the task get_kinopoisk_data(query) starts running
TaskKp(r) ==
    /\ req[r].pc = "gather"
    /\ kp[r].pc = "created"
    /\ KpEnter(r, req[r].query)
    /\ UNCHANGED <<now, ticks, movieFile, rutubeFile, kvVars, rt, lastRt, apiCount,
                   reqVars>>

\* the outcome message chosen from the toggle as it is when the text is built
ReqRenderLive(m) ==
    LET image_url == IF m.kinopoisk_data.empty THEN NoneStr
                     ELSE m.kinopoisk_data.rec.posterUrlPreview
    IN  IF RenderRaises(m.kinopoisk_data)
        THEN [m EXCEPT !.pc = "crashed", !.raised = TRUE]
        ELSE [m EXCEPT !.pc = IF Truthy(image_url) THEN "poster" ELSE "send",
                       !.response = Render(m.kinopoisk_data, m.video_links,
                                           settings.links_on),
                       !.image_url = image_url]

\* lines 137-197 run to the end, or raise
ReqRender(m) ==
    LET image_url == IF m.kinopoisk_data.empty THEN NoneStr
                     ELSE m.kinopoisk_data.rec.posterUrlPreview
    IN  IF RenderRaises(m.kinopoisk_data)
        THEN [m EXCEPT !.pc = "crashed", !.raised = TRUE]
        ELSE [m EXCEPT !.pc = IF Truthy(image_url) THEN "poster" ELSE "send",
                       !.response = Render(m.kinopoisk_data, m.video_links, m.links_on),
                       !.image_url = image_url]

HasRecordAlways(kinopoisk_data) == TRUE

\* line 140: if kinopoisk_data
HasRecord(kinopoisk_data) == ~kinopoisk_data.empty

\* the results are sorted out without waiting for the links task
ReqCollectEarly(r) ==
    /\ req[r].pc = "gather"
    /\ req[r].kp_on => kp[r].pc = "done"
    /\ LET kinopoisk_data ==
               IF req[r].kp_on /\ ~kp[r].raised /\ ~kp[r].ret.empty
               THEN kp[r].ret ELSE EmptyRecord
           video_links ==
               IF req[r].links_on /\ ~rt[r].raised THEN rt[r].ret ELSE <<>>
           m == [req[r] EXCEPT !.collected = TRUE,
                               !.kinopoisk_data = kinopoisk_data,
                               !.video_links = video_links]
       IN  IF HasRecord(kinopoisk_data)
           THEN ReqSet(r, [m EXCEPT !.pc = "add_movie", !.movieCalls = @ + 1])
           ELSE ReqSet(r, ReqRender(m))
    /\ UNCHANGED <<now, ticks, movieFile, rutubeFile, kvVars, apiVars, settings, keyIn,
                   posterVars>>

\* lines 116-141: both tasks have ended; their results are sorted out
ReqCollect(r) ==
    /\ req[r].pc = "gather"
    /\ req[r].links_on => rt[r].pc = "done"
    /\ req[r].kp_on => kp[r].pc = "done"
    /\ LET kinopoisk_data ==
               IF req[r].kp_on /\ ~kp[r].raised /\ ~kp[r].ret.empty
               THEN kp[r].ret ELSE EmptyRecord
           video_links ==
               IF req[r].links_on /\ ~rt[r].raised THEN rt[r].ret ELSE <<>>
           m == [req[r] EXCEPT !.collected = TRUE,
                               !.kinopoisk_data = kinopoisk_data,
                               !.video_links = video_links]
       IN  IF HasRecord(kinopoisk_data)
           THEN ReqSet(r, [m EXCEPT !.pc = "add_movie", !.movieCalls = @ + 1])
           ELSE ReqSet(r, ReqRender(m))
    /\ UNCHANGED <<now, ticks, movieFile, rutubeFile, kvVars, apiVars, settings, keyIn,
                   posterVars>>

\* lines 141-197: db.add_movie returns or raises; the response is built
ReqAddMovie(r, ok) ==
    /\ req[r].pc = "add_movie"
    /\ IF ok
       THEN ReqSet(r, ReqRender([req[r] EXCEPT !.movies = @ + 1]))
       ELSE ReqSet(r, [req[r] EXCEPT !.pc = "crashed", !.raised = TRUE,
                                     !.dbFailed = TRUE])
    /\ UNCHANGED <<now, ticks, movieFile, rutubeFile, kvVars, apiVars, settings, keyIn,
                   posterVars>>

\* handlers/commands.py: /turn_links
toggle_links(hasUser) ==
    /\ settings' = IF hasUser THEN [settings EXCEPT !.links_on = ~@] ELSE settings
    /\ UNCHANGED <<now, ticks, movieFile, rutubeFile, kvVars, apiVars, req, keyIn,
                   posterVars>>

\* handlers/commands.py: /turn_kp
toggle_kp(hasUser) ==
    /\ settings' = IF hasUser THEN [settings EXCEPT !.kp_on = ~@] ELSE settings
    /\ UNCHANGED <<now, ticks, movieFile, rutubeFile, kvVars, apiVars, req, keyIn,
                   posterVars>>

\* what the providers answer to the requests
ReqRutubeResponses ==
    { [kind |-> "exception", results |-> <<>>],
      [kind |-> "ok", results |-> <<DocNoUrl, DocX, DocAB>>] }

ReqKpSearchResponses ==
    { [kind |-> "exception", films |-> <<>>],
      [kind |-> "ok", films |-> <<FilmX, FilmABC>>],
      [kind |-> "ok", films |-> <<FilmNullTitle>>],
      [kind |-> "ok", films |-> <<FilmAnon>>] }

ReqKpDetailsResponses ==
    { NoDetails,
      Details(<<"D">>, <<"P">>, AbsentStr) }

InitReq ==
    /\ InitFiles
    /\ InitKVHist
    /\ InitApiCalls
    /\ req = [r \in Callers |-> IdleReq]
    /\ settings = InitSettings
    /\ keyIn = <<>>
    /\ InitPosters

NextReq ==
    \/ \E r \in Callers, text \in MsgTexts, hasUser \in BOOLEAN :
          ReqReceive(r, text, hasUser)
    \/ \E r \in Callers, ok \in BOOLEAN : ReqAddSearch(r, ok)
    \/ \E r \in Callers : ReqLaunch(r)
    \/ \E r \in Callers : TaskRt(r)
    \/ \E r \in Callers : TaskKp(r)
    \/ \E r \in Callers, resp \in ReqRutubeResponses : RtResponse(r, resp)
    \/ \E r \in Callers, resp \in ReqKpSearchResponses : KpSearchResponse(r, resp)
    \/ \E r \in Callers, d \in ReqKpDetailsResponses : KpDetailsResponse(r, d)
    \/ \E r \in Callers : ReqCollect(r)
    \/ \E r \in Callers, ok \in BOOLEAN : ReqAddMovie(r, ok)
    \/ \E hasUser \in BOOLEAN : toggle_links(hasUser)
    \/ \E hasUser \in BOOLEAN : toggle_kp(hasUser)

SpecReq == InitReq /\ [][NextReq]_vars

----------------------------------------------------------------------------
(* find_exact_match applied on its own *)

MatchTitles ==
    { <<"V", "e", "n", "o", "m", " ", "2">>,
      <<"V", "e", "n", "o", "m">>,
      <<"V", "e", "n", "o", "m", ":", " ", "L", "e", "t", " ", "T", "h", "e", "r", "e", " ", "B", "e", " ", "C", "a", "r", "n", "a", "g", "e">>,
      <<"u0412", "u0435", "u043d", "u043e", "u043c">>,
      <<"V", "e", "n", "o", "m", "o", "u", "s">>,
      NoneStr }

MatchQueries ==
    { <<"v", "e", "n", "o", "m">>,
      <<" ", "V", "E", "N", "O", "M", " ">>,
      <<"n", "o", "m">>,
      <<"l", "e", "t", " ", "t", "h", "e", "r", "e">> }

ResultLists ==
    UNION { [1..n -> [title : MatchTitles]] : n \in 1..MaxResults }

InitMatch ==
    /\ InitFiles
    /\ InitKVHist
    /\ rt = <<>>
    /\ kp = <<>>
    /\ lastRt = <<>>
    /\ apiCount = 0
    /\ req = <<>>
    /\ settings = InitSettings
    /\ keyIn \in [results : ResultLists, query : MatchQueries,
                  called : {FALSE}, raised : {FALSE}, picked : {0}]
    /\ InitPosters

\* get_kinopoisk_data, lines 173-181, on a non-empty result list
MatchPick ==
    /\ ~keyIn.called
    /\ LET m == find_exact_match(keyIn.results, keyIn.query)
       IN  keyIn' = [keyIn EXCEPT !.called = TRUE, !.raised = m.raised,
                                  !.picked = IF m.raised THEN 0
                                             ELSE SelectedIndex(keyIn.results,
                                                                keyIn.query)]
    /\ UNCHANGED <<now, ticks, movieFile, rutubeFile, kvVars, apiVars, req, settings,
                   posterVars>>

NextMatch == MatchPick

SpecMatch == InitMatch /\ [][NextMatch]_vars

----------------------------------------------------------------------------
(* handlers/search.py: handle_message, the poster and the sending *)

POSTERS_DIR == "cache/posters"

\* random.randint(1000, 9999) of random_filename
RandomNames == {1000, 1001}

\* the entries of poster_paths: a file of POSTERS_DIR, or random_filename in
\* the working directory
CachedPath(f) == [dir |-> POSTERS_DIR, name |-> 0, file |-> f]
TempPath(n)   == [dir |-> "", name |-> n, file |-> PosterFile(0, 0, 0)]

\* a file of the working directory and what was written to it: the
\* downloaded poster, the placeholder, or an unfinished write
TempFile(n, kind) == [name |-> n, kind |-> kind]

\* open(random_filename, "wb") and the write: the file of that name is replaced
WriteTemp(tmp, n, kind) == { t \in tmp : t.name # n } \cup { TempFile(n, kind) }

\* os.path.exists(path)
PathExists(fsys, p) ==
    IF p.dir = POSTERS_DIR THEN p.file \in fsys.posters
    ELSE \E t \in fsys.tmp : t.name = p.name

\* what FSInputFile(path) sends
PathContent(fsys, p) ==
    IF p.dir = POSTERS_DIR THEN "poster"
    ELSE (CHOOSE t \in fsys.tmp : t.name = p.name).kind

\* the finally block with no test of the directory
RemoveEvery(fsys, paths) ==
    [posters |-> { f \in fsys.posters :
                     \A i \in DOMAIN paths :
                        ~(paths[i].dir = POSTERS_DIR /\ paths[i].file = f) },
     tmp |-> { t \in fsys.tmp :
                 \A i \in DOMAIN paths :
                    ~(paths[i].dir # POSTERS_DIR /\ paths[i].name = t.name) }]

\* the finally block, lines 401-411: every path that exists and whose
\* directory is not POSTERS_DIR is removed
RemoveTemporary(fsys, paths) ==
    [posters |-> fsys.posters,
     tmp |-> { t \in fsys.tmp :
                 \A i \in DOMAIN paths :
                    ~(paths[i].dir # POSTERS_DIR /\ paths[i].name = t.name) }]

\* the outcomes of writing a file: written, not created, or created and
\* the write raised
WriteOutcomes == {"ok", "fail", "partial"}

\* lines 215-253: the download. status is "200", another status, or
\* "raise" (network error, timeout); on 200 the poster is saved to the cache
\* when the record has an identifier, and written to random_filename when
\* it has none or the cache refused it
Download(fsys, id, name, status, frac, saveOk, wr) ==
    LET save == save_poster_to_cache(fsys.posters, id, frac, saveOk)
    IN  IF status # "200"
        THEN [fs |-> fsys, paths |-> <<>>, loaded |-> FALSE, made |-> FALSE]
        ELSE IF save.ret.found
        THEN [fs |-> [fsys EXCEPT !.posters = save.posters],
              paths |-> <<CachedPath(save.ret.file)>>, loaded |-> TRUE,
              made |-> FALSE]
        ELSE IF wr = "ok"
        THEN [fs |-> [fsys EXCEPT !.tmp = WriteTemp(@, name, "poster")],
              paths |-> <<TempPath(name)>>, loaded |-> TRUE, made |-> TRUE]
        ELSE IF wr = "partial"
        THEN [fs |-> [fsys EXCEPT !.tmp = WriteTemp(@, name, "partial")],
              paths |-> <<>>, loaded |-> FALSE, made |-> TRUE]
        ELSE [fs |-> fsys, paths |-> <<>>, loaded |-> FALSE, made |-> FALSE]

\* lines 256-371: the placeholder is drawn and saved to random_filename;
\* syn is the outcome of the drawing and of img.save, the second attempt
\* included
Placeholder(fsys, name, syn) ==
    IF syn = "ok"
    THEN [fs |-> [fsys EXCEPT !.tmp = WriteTemp(@, name, "placeholder")],
          paths |-> <<TempPath(name)>>, loaded |-> TRUE, made |-> TRUE]
    ELSE IF syn = "partial"
    THEN [fs |-> [fsys EXCEPT !.tmp = WriteTemp(@, name, "partial")],
          paths |-> <<>>, loaded |-> FALSE, made |-> TRUE]
    ELSE [fs |-> fsys, paths |-> <<>>, loaded |-> FALSE, made |-> FALSE]

\* a request whose response text is built: id is kinopoiskId (0: None),
\* url whether image_url is set
PostAt(id, url) ==
    [pc |-> "start", id |-> id, url |-> url, name |-> 0, paths |-> <<>>,
     loaded |-> FALSE, tried |-> FALSE, synth |-> FALSE, made |-> FALSE,
     fault |-> FALSE,
     loadingDeleted |-> FALSE, answers |-> <<>>]

PostSet(r, m) ==
    post' = [post EXCEPT ![r] = m]

PostFrame ==
    UNCHANGED <<now, ticks, movieFile, rutubeFile, kvVars, apiVars, req, settings,
                keyIn, posterOp, proc, db, host>>

\* lines 199-213: random_filename is drawn and the poster cache is asked
ReqPosterStart(r, name, cfrac) ==
    /\ post[r].pc = "start"
    /\ IF ~post[r].url
       THEN /\ PostSet(r, [post[r] EXCEPT !.pc = "text_delete"])
            /\ UNCHANGED fs
       ELSE \E first \in FirstListed(fs.posters, post[r].id) :
              LET g == get_cached_poster_path(fs.posters, post[r].id, first, cfrac)
              IN  /\ fs' = [fs EXCEPT !.posters = g.posters]
                  /\ IF g.ret.found
                     THEN PostSet(r, [post[r] EXCEPT !.pc = "send_delete",
                                         !.name = name,
                                         !.paths = <<CachedPath(g.ret.file)>>,
                                         !.loaded = TRUE])
                     ELSE PostSet(r, [post[r] EXCEPT !.pc = "download",
                                         !.name = name])
    /\ PostFrame

\* the placeholder is saved to the poster cache like a downloaded poster
ReqPosterFetchCaching(r, status, frac, saveOk, wr, syn) ==
    /\ post[r].pc = "download"
    /\ LET d == Download(fs, post[r].id, post[r].name, status, frac, saveOk, wr)
           p == Placeholder(d.fs, post[r].name, syn)
           save == save_poster_to_cache(p.fs.posters, post[r].id, frac, saveOk)
           c == IF p.loaded /\ save.ret.found
                THEN [fs |-> [p.fs EXCEPT !.posters = save.posters],
                      paths |-> <<CachedPath(save.ret.file)>>,
                      loaded |-> TRUE, made |-> p.made]
                ELSE p
           e == IF d.loaded THEN d ELSE c
       IN  /\ fs' = e.fs
           /\ PostSet(r, [post[r] EXCEPT
                  !.pc = IF e.loaded THEN "send_delete" ELSE "text_delete",
                  !.paths = e.paths, !.loaded = e.loaded, !.tried = TRUE,
                  !.synth = ~d.loaded /\ p.loaded,
                  !.made = d.made \/ (~d.loaded /\ p.made),
                  !.fault = ~d.loaded /\ ~p.loaded])
    /\ PostFrame

\* lines 216-371: the download ends; when it gave no poster the placeholder
\* is made
ReqPosterFetch(r, status, frac, saveOk, wr, syn) ==
    /\ post[r].pc = "download"
    /\ LET d == Download(fs, post[r].id, post[r].name, status, frac, saveOk, wr)
           p == Placeholder(d.fs, post[r].name, syn)
           e == IF d.loaded THEN d ELSE p
       IN  /\ fs' = e.fs
           /\ PostSet(r, [post[r] EXCEPT
                  !.pc = IF e.loaded THEN "send_delete" ELSE "text_delete",
                  !.paths = e.paths, !.loaded = e.loaded, !.tried = TRUE,
                  !.synth = ~d.loaded /\ p.loaded,
                  !.made = d.made \/ (~d.loaded /\ p.made),
                  !.fault = ~d.loaded /\ ~p.loaded])
    /\ PostFrame

\* the request leaves the try statement: the finally block runs
PostEnd(r, m) ==
    /\ fs' = RemoveTemporary(fs, post[r].paths)
    /\ PostSet(r, m)

\* line 375: await loading_msg.delete()
ReqSendDelete(r, ok) ==
    /\ post[r].pc = "send_delete"
    /\ PostSet(r, IF ok THEN [post[r] EXCEPT !.pc = "send_photo",
                                              !.loadingDeleted = TRUE]
                  ELSE [post[r] EXCEPT !.pc = "except", !.fault = TRUE])
    /\ UNCHANGED fs
    /\ PostFrame

\* lines 376-396: await message.answer_photo(FSInputFile(poster_paths[0]));
\* long is len(final_response) > 1000
ReqSendPhoto(r, ok, long) ==
    /\ post[r].pc = "send_photo"
    /\ LET p == post[r].paths[1]
           sent == [post[r] EXCEPT
                       !.answers = Append(@, "photo:" \o PathContent(fs, p))]
       IN  IF ~PathExists(fs, p)
           THEN /\ PostSet(r, [post[r] EXCEPT !.pc = "except"])
                /\ UNCHANGED fs
           ELSE IF ~ok
           THEN /\ PostSet(r, [post[r] EXCEPT !.pc = "except", !.fault = TRUE])
                /\ UNCHANGED fs
           ELSE IF long
           THEN /\ PostSet(r, [sent EXCEPT !.pc = "send_text"])
                /\ UNCHANGED fs
           ELSE PostEnd(r, [sent EXCEPT !.pc = "done"])
    /\ PostFrame

\* lines 387-388: the text after the photo with the short caption
ReqSendText(r, ok) ==
    /\ post[r].pc = "send_text"
    /\ IF ok
       THEN PostEnd(r, [post[r] EXCEPT !.pc = "done", !.answers = Append(@, "text")])
       ELSE /\ PostSet(r, [post[r] EXCEPT !.pc = "except", !.fault = TRUE])
            /\ UNCHANGED fs
    /\ PostFrame

\* line 398: await loading_msg.delete() of the except clause; deleting a
\* message that is already deleted is refused
ReqSendExcept(r, ok) ==
    /\ post[r].pc = "except"
    /\ IF ok /\ ~post[r].loadingDeleted
       THEN /\ PostSet(r, [post[r] EXCEPT !.pc = "except_text",
                                           !.loadingDeleted = TRUE])
            /\ UNCHANGED fs
       ELSE PostEnd(r, [post[r] EXCEPT !.pc = "crashed"])
    /\ PostFrame

\* lines 399-400: the text answer of the except clause
ReqSendExceptText(r, ok) ==
    /\ post[r].pc = "except_text"
    /\ PostEnd(r, IF ok THEN [post[r] EXCEPT !.pc = "done",
                                             !.answers = Append(@, "text")]
                  ELSE [post[r] EXCEPT !.pc = "crashed", !.fault = TRUE])
    /\ PostFrame

\* lines 414, 418, 422: await loading_msg.delete() when there is no poster
ReqTextDelete(r, ok) ==
    /\ post[r].pc = "text_delete"
    /\ PostSet(r, IF ok THEN [post[r] EXCEPT !.pc = "text_answer",
                                              !.loadingDeleted = TRUE]
                  ELSE [post[r] EXCEPT !.pc = "crashed", !.fault = TRUE])
    /\ UNCHANGED fs
    /\ PostFrame

\* lines 415, 419, 423: the text answer when there is no poster
ReqTextAnswer(r, ok) ==
    /\ post[r].pc = "text_answer"
    /\ PostSet(r, IF ok THEN [post[r] EXCEPT !.pc = "done",
                                              !.answers = Append(@, "text")]
                  ELSE [post[r] EXCEPT !.pc = "crashed", !.fault = TRUE])
    /\ UNCHANGED fs
    /\ PostFrame

\* the records the poster stage can be entered with: a record with an
\* identifier and a poster URL, one with a poster URL only, or no image_url
PostStarts == { PostAt(301, TRUE), PostAt(0, TRUE), PostAt(0, FALSE) }

\* the poster directory is empty or holds a poster of an earlier request,
\* which is a day old, at the end of the window, or older than the window
InitDeliver ==
    /\ now \in {1, CACHE_EXPIRY_DAYS, CACHE_EXPIRY_DAYS + 1}
    /\ ticks = 0
    /\ movieFile = EmptyFile
    /\ rutubeFile = EmptyFile
    /\ InitKVHist
    /\ rt = <<>>
    /\ kp = <<>>
    /\ lastRt = <<>>
    /\ apiCount = 0
    /\ req = <<>>
    /\ settings = InitSettings
    /\ keyIn = <<>>
    /\ posterOp = NoPosterOp
    /\ fs \in { [posters |-> ps, tmp |-> {}] : ps \in { {}, {PosterFile(301, 0, 1)} } }
    /\ post \in [Callers -> PostStarts]
    /\ proc = <<>>
    /\ db = <<>>
    /\ host = <<>>

NextDeliver ==
    \/ \E r \in Callers, name \in RandomNames, cfrac \in ClockFracs :
          ReqPosterStart(r, name, cfrac)
    \/ \E r \in Callers, status \in {"200", "404", "raise"}, frac \in ClockFracs,
          saveOk \in BOOLEAN, wr \in WriteOutcomes, syn \in WriteOutcomes :
          ReqPosterFetch(r, status, frac, saveOk, wr, syn)
    \/ \E r \in Callers, ok \in BOOLEAN : ReqSendDelete(r, ok)
    \/ \E r \in Callers, ok \in BOOLEAN, long \in BOOLEAN : ReqSendPhoto(r, ok, long)
    \/ \E r \in Callers, ok \in BOOLEAN : ReqSendText(r, ok)
    \/ \E r \in Callers, ok \in BOOLEAN : ReqSendExcept(r, ok)
    \/ \E r \in Callers, ok \in BOOLEAN : ReqSendExceptText(r, ok)
    \/ \E r \in Callers, ok \in BOOLEAN : ReqTextDelete(r, ok)
    \/ \E r \in Callers, ok \in BOOLEAN : ReqTextAnswer(r, ok)

SpecDeliver == InitDeliver /\ [][NextDeliver]_vars

----------------------------------------------------------------------------
(* database.py: the tables searches and movies, and the calls on them *)

MaxDbCalls == 3

\* limit=10 of get_search_history
HISTORY_LIMIT == 10

Users == {1, 2}
Titles == {"x", "y"}

\* a row of the table searches, and a row of the table movies
SearchRow(id, user_id, query) == [id |-> id, user_id |-> user_id, query |-> query]
MovieRow(id, user_id, title, count) ==
    [id |-> id, user_id |-> user_id, title |-> title, count |-> count]

\* a call that has not started; ret is what a finished read returned
IdleDb == [pc |-> "idle", op |-> "none", user_id |-> 0, arg |-> "",
           found |-> FALSE, movie_id |-> 0, count |-> 0, raised |-> FALSE,
           ret |-> <<>>]

\* the database after Database.init(); added counts the add_movie calls
\* that have returned, per user and title
EmptyDb ==
    [searches |-> <<>>, movies |-> <<>>,
     calls |-> [c \in Callers |-> IdleDb],
     started |-> 0,
     added |-> [u \in Users |-> [t \in Titles |-> 0]]]

\* INTEGER PRIMARY KEY AUTOINCREMENT: one more than every id given so far
NextId(rows) == Len(rows) + 1

DbFrame ==
    UNCHANGED <<now, ticks, movieFile, rutubeFile, kvVars, apiVars, req, settings,
                keyIn, fs, posterOp, post, proc, host>>

DbFree(c) == db.calls[c].pc \in {"idle", "done"} /\ db.started < MaxDbCalls

\* lines 87-105: add_search inserts one row and commits; ok is whether the
\* database accepted the write
add_search(c, user_id, query, ok) ==
    /\ DbFree(c)
    /\ db' = [db EXCEPT
                !.started = @ + 1,
                !.searches = IF ok THEN Append(@, SearchRow(NextId(@), user_id, query))
                             ELSE @,
                !.calls[c] = [IdleDb EXCEPT !.pc = "done", !.op = "add_search",
                                            !.user_id = user_id, !.arg = query,
                                            !.raised = ~ok]]
    /\ DbFrame

\* the rows SELECT ... WHERE title = ? gives with no test of user_id
MatchingAnyUser(movies, user_id, title) ==
    { i \in DOMAIN movies : movies[i].title = title }

\* lines 127-130: SELECT id, count FROM movies WHERE user_id = ? AND title = ?
Matching(movies, user_id, title) ==
    { i \in DOMAIN movies : movies[i].user_id = user_id /\ movies[i].title = title }

\* lines 123-131: add_movie opens its connection and runs the SELECT;
\* fetchone gives one of the matching rows, or None
AddMovieSelect(c, user_id, title) ==
    /\ DbFree(c)
    /\ LET rows == Matching(db.movies, user_id, title)
           call == [IdleDb EXCEPT !.pc = "selected", !.op = "add_movie",
                                  !.user_id = user_id, !.arg = title]
       IN  IF rows = {}
           THEN db' = [db EXCEPT !.started = @ + 1, !.calls[c] = call]
           ELSE \E i \in rows :
                  db' = [db EXCEPT !.started = @ + 1,
                            !.calls[c] = [call EXCEPT !.found = TRUE,
                                             !.movie_id = db.movies[i].id,
                                             !.count = db.movies[i].count]]
    /\ DbFrame

\* lines 133-148: the UPDATE of the row that was selected, with the count
\* that was selected, or the INSERT of a new row, and the commit; ok is
\* whether the database accepted the write
AddMovieWrite(c, ok) ==
    /\ db.calls[c].pc = "selected"
    /\ LET call == db.calls[c]
           updated == [i \in DOMAIN db.movies |->
                         IF db.movies[i].id = call.movie_id
                         THEN [db.movies[i] EXCEPT !.count = call.count + 1]
                         ELSE db.movies[i]]
           inserted == Append(db.movies,
                              MovieRow(NextId(db.movies), call.user_id, call.arg, 1))
       IN  IF ~ok
           THEN db' = [db EXCEPT !.calls[c].pc = "done", !.calls[c].raised = TRUE]
           ELSE db' = [db EXCEPT
                         !.movies = IF call.found THEN updated ELSE inserted,
                         !.calls[c].pc = "done",
                         !.added[call.user_id][call.arg] = @ + 1]
    /\ DbFrame

\* the rows of a table that belong to user_id, in the order of the table
RowsOf(rows, user_id) ==
    SelectSeq(rows, LAMBDA row : row.user_id = user_id)

\* s without its element at position i
DropAt(s, i) == SubSeq(s, 1, i - 1) \o SubSeq(s, i + 1, Len(s))

\* the orders ORDER BY count DESC may give: rows with equal counts come in
\* any order
RECURSIVE ByCountDesc(_)
ByCountDesc(rows) ==
    IF rows = <<>> THEN { <<>> }
    ELSE UNION { { <<rows[i]>> \o rest : rest \in ByCountDesc(DropAt(rows, i)) } :
                 i \in { j \in DOMAIN rows :
                           \A k \in DOMAIN rows : rows[k].count <= rows[j].count } }

Reverse(s) == [i \in DOMAIN s |-> s[Len(s) + 1 - i]]

\* lines 150-167: the searches of user_id, the latest first, at most limit
get_search_history(searches, user_id, limit) ==
    LET mine == Reverse(RowsOf(searches, user_id))
        shown == SubSeq(mine, 1, IF Len(mine) < limit THEN Len(mine) ELSE limit)
    IN  [i \in DOMAIN shown |-> [query |-> shown[i].query]]

\* lines 169-185: the movies of user_id, the most shown first
get_movie_stats(movies, user_id) ==
    { [i \in DOMAIN rows |-> [title |-> rows[i].title, count |-> rows[i].count]] :
        rows \in ByCountDesc(RowsOf(movies, user_id)) }

\* handlers/history.py line 45: a caller reads a user's history
DbHistory(c, user_id) ==
    /\ DbFree(c)
    /\ db' = [db EXCEPT
                !.started = @ + 1,
                !.calls[c] = [IdleDb EXCEPT !.pc = "done", !.op = "history",
                                 !.user_id = user_id,
                                 !.ret = get_search_history(db.searches, user_id,
                                                            HISTORY_LIMIT)]]
    /\ DbFrame

\* handlers/history.py line 81: a caller reads a user's statistics
DbStats(c, user_id) ==
    /\ DbFree(c)
    /\ \E ret \in get_movie_stats(db.movies, user_id) :
          db' = [db EXCEPT
                   !.started = @ + 1,
                   !.calls[c] = [IdleDb EXCEPT !.pc = "done", !.op = "stats",
                                    !.user_id = user_id, !.ret = ret]]
    /\ DbFrame

DbQueries == {"q", "w"}

InitDb ==
    /\ InitFiles
    /\ InitKVHist
    /\ rt = <<>>
    /\ kp = <<>>
    /\ lastRt = <<>>
    /\ apiCount = 0
    /\ req = <<>>
    /\ settings = InitSettings
    /\ keyIn = <<>>
    /\ fs = [posters |-> {}, tmp |-> {}]
    /\ posterOp = NoPosterOp
    /\ post = <<>>
    /\ proc = <<>>
    /\ db = EmptyDb
    /\ host = <<>>

NextDb ==
    \/ \E c \in Callers, u \in Users, q \in DbQueries, ok \in BOOLEAN :
          add_search(c, u, q, ok)
    \/ \E c \in Callers, u \in Users, t \in Titles : AddMovieSelect(c, u, t)
    \/ \E c \in Callers, ok \in BOOLEAN : AddMovieWrite(c, ok)
    \/ \E c \in Callers, u \in Users : DbHistory(c, u)
    \/ \E c \in Callers, u \in Users : DbStats(c, u)

SpecDb == InitDb /\ [][NextDb]_vars

----------------------------------------------------------------------------
(* main.py: the PID file and the instances of the bot *)

MaxStarts == 3

\* the process ids the machine gives; 0 stands for no PID file
Pids == {11, 12, 13}
NoPidFile == 0

\* no process runs and there is no bot.pid
EmptyHost ==
    [pidFile |-> NoPidFile, inst |-> [p \in Pids |-> "off"], starts |-> 0,
     rejected |-> FALSE]

HostFrame ==
    UNCHANGED <<now, ticks, movieFile, rutubeFile, kvVars, apiVars, req, settings,
                keyIn, fs, posterOp, post, proc, db>>

\* os.kill(pid, 0): a process of that id exists
Alive(pid) == pid \in Pids /\ host.inst[pid] \notin {"off", "exited"}

\* remove_pid_file, lines 72-79: bot.pid is removed, whatever it holds
remove_pid_file(pidFile) == NoPidFile

\* lines 153-159: sys.exit(1) of check_pid_file leaves asyncio.run as
\* SystemExit; the handler of __main__ calls remove_pid_file
ExitOfRejected(pidFile) == remove_pid_file(pidFile)

\* python main.py: a process is created and runs up to check_pid_file
StartProcess(p) ==
    /\ host.inst[p] \in {"off", "exited"}
    /\ host.starts < MaxStarts
    /\ host' = [host EXCEPT !.inst[p] = "check", !.starts = @ + 1,
                            !.rejected = FALSE]
    /\ HostFrame

\* lines 49-65: bot.pid is looked for and read, the process it names is
\* probed; when it is alive this process exits
CheckPid(p) ==
    /\ host.inst[p] = "check"
    /\ IF host.pidFile # NoPidFile /\ Alive(host.pidFile)
       THEN host' = [host EXCEPT !.inst[p] = "exited",
                                 !.pidFile = ExitOfRejected(@),
                                 !.rejected = TRUE]
       ELSE host' = [host EXCEPT !.inst[p] = "write", !.rejected = FALSE]
    /\ HostFrame

\* lines 68-70: bot.pid is written with the id of this process
WritePid(p) ==
    /\ host.inst[p] = "write"
    /\ host' = [host EXCEPT !.inst[p] = "running", !.pidFile = p,
                            !.rejected = FALSE]
    /\ HostFrame

\* lines 129-135, 141-151, 157-163: the instance ends and removes bot.pid
Shutdown(p) ==
    /\ host.inst[p] = "running"
    /\ host' = [host EXCEPT !.inst[p] = "exited",
                            !.pidFile = remove_pid_file(@),
                            !.rejected = FALSE]
    /\ HostFrame

\* the instance is killed and removes nothing
Killed(p) ==
    /\ host.inst[p] = "running"
    /\ host' = [host EXCEPT !.inst[p] = "exited", !.rejected = FALSE]
    /\ HostFrame

InitHost ==
    /\ InitFiles
    /\ InitKVHist
    /\ rt = <<>>
    /\ kp = <<>>
    /\ lastRt = <<>>
    /\ apiCount = 0
    /\ req = <<>>
    /\ settings = InitSettings
    /\ keyIn = <<>>
    /\ fs = [posters |-> {}, tmp |-> {}]
    /\ posterOp = NoPosterOp
    /\ post = <<>>
    /\ proc = <<>>
    /\ db = <<>>
    /\ host = EmptyHost

NextHost ==
    \/ \E p \in Pids : StartProcess(p)
    \/ \E p \in Pids : CheckPid(p)
    \/ \E p \in Pids : WritePid(p)
    \/ \E p \in Pids : Shutdown(p)
    \/ \E p \in Pids : Killed(p)

SpecHost == InitHost /\ [][NextHost]_vars

----------------------------------------------------------------------------
(* utils/cache.py: clear_cache; handlers/commands.py: the clearing commands *)

MaxCommands == 2

ADMIN_IDS == {1601735530}

\* message.from_user.id and message.chat.id of the senders; 0 stands for
\* None
Senders == { <<0, 7>>, <<7, 0>>, <<7, 7>>, <<7, 1601735530>>,
             <<1601735530, 1601735530>>, <<1601735530, 7>> }

\* the arguments of clear_cache
Flags(clear_all, clear_posters, clear_movie_data, clear_rutube) ==
    [clear_all |-> clear_all, clear_posters |-> clear_posters,
     clear_movie_data |-> clear_movie_data, clear_rutube |-> clear_rutube]

\* the calls that are made: the defaults, one kind, two kinds, every flag
\* or no flag
AllFlags ==
    { Flags(TRUE, FALSE, FALSE, FALSE), Flags(TRUE, TRUE, TRUE, TRUE),
      Flags(FALSE, TRUE, FALSE, FALSE), Flags(FALSE, FALSE, TRUE, FALSE),
      Flags(FALSE, FALSE, FALSE, TRUE), Flags(FALSE, TRUE, FALSE, TRUE),
      Flags(FALSE, FALSE, FALSE, FALSE) }

\* lines 258-288: a file that exists is rewritten as {}; when it cannot be
\* opened the error is caught and the file is left; a file that does not
\* exist is left to init_cache_directories
ClearFile(file) ==
    IF file.st \in {"ok", "corrupt"} THEN EmptyFile ELSE file

\* clear_cache taking every call as clear_all
clear_cache_everything(movie, rutube, posters, flags) ==
    [movie |-> init_cache_directories(ClearFile(movie)),
     rutube |-> init_cache_directories(ClearFile(rutube)),
     posters |-> {},
     nothing |-> FALSE]

\* lines 216-295: clear_cache; nothing is whether results is empty
clear_cache(movie, rutube, posters, flags) ==
    LET clear_posters == flags.clear_all \/ flags.clear_posters
        clear_movie_data == flags.clear_all \/ flags.clear_movie_data
        clear_rutube == flags.clear_all \/ flags.clear_rutube
    IN  [movie |-> init_cache_directories(
                      IF clear_movie_data THEN ClearFile(movie) ELSE movie),
         rutube |-> init_cache_directories(
                      IF clear_rutube THEN ClearFile(rutube) ELSE rutube),
         posters |-> IF clear_posters THEN {} ELSE posters,
         nothing |-> ~clear_posters /\ ~clear_movie_data /\ ~clear_rutube]

\* every sender that names a user is taken as an admin
is_admin_anyone(from_user, chat) == from_user # 0

\* handlers/commands.py lines 38-54
is_admin(from_user, chat) ==
    /\ from_user # 0
    /\ \/ from_user \in ADMIN_IDS
       \/ chat # 0 /\ chat \in ADMIN_IDS

ClearCommands == {"clear_cache", "clear_posters", "clear_movie_data", "clear_rutube"}

\* what each command asks for: /clear_cache calls clear_cache() with its
\* defaults; clear_posters, clear_movie_data and clear_rutube are imported
\* from utils.cache, which holds no definition of them: each is taken as
\* clear_cache(clear_all=False) with the flag of its name
CommandFlags(cmd) ==
    Flags(cmd = "clear_cache", cmd = "clear_posters", cmd = "clear_movie_data",
          cmd = "clear_rutube")

\* the entries a KV file gives to its readers
EntriesOf(file) == IF file.st = "ok" THEN file.data ELSE EmptyDict

\* which of the three caches hold something
Holding ==
    [posters |-> fs.posters # {},
     movie |-> EntriesOf(movieFile) # EmptyDict,
     rutube |-> EntriesOf(rutubeFile) # EmptyDict]

\* the last clearing command or clear_cache call; had is what the caches
\* held when it arrived
NoCommand ==
    [cmd |-> "none", from_user |-> 0, chat |-> 0,
     flags |-> Flags(FALSE, FALSE, FALSE, FALSE), answer |-> "", n |-> 0,
     had |-> [posters |-> FALSE, movie |-> FALSE, rutube |-> FALSE]]

ClearFrame ==
    UNCHANGED <<now, ticks, kvVars, apiVars, req, settings, posterOp, post, proc,
                db, host>>

ClearApply(flags) ==
    LET c == clear_cache(movieFile, rutubeFile, fs.posters, flags)
    IN  /\ movieFile' = c.movie
        /\ rutubeFile' = c.rutube
        /\ fs' = [fs EXCEPT !.posters = c.posters]

\* clear_cache is called with the given arguments
ClearCall(flags) ==
    /\ keyIn.n < MaxCommands
    /\ ClearApply(flags)
    /\ keyIn' = [NoCommand EXCEPT !.cmd = "call", !.flags = flags,
                    !.had = Holding,
                    !.answer = IF clear_cache(movieFile, rutubeFile, fs.posters,
                                              flags).nothing
                               THEN "nothing" ELSE "cleared",
                    !.n = keyIn.n + 1]
    /\ ClearFrame

\* handlers/commands.py lines 177-279: one of the four clearing commands
\* arrives from a sender
HandleClear(cmd, from_user, chat) ==
    /\ keyIn.n < MaxCommands
    /\ LET op == [NoCommand EXCEPT !.cmd = cmd, !.from_user = from_user,
                                   !.chat = chat, !.n = keyIn.n + 1,
                                   !.had = Holding]
       IN  IF from_user = 0
           THEN /\ keyIn' = [op EXCEPT !.answer = "no_user"]
                /\ UNCHANGED <<movieFile, rutubeFile, fs>>
           ELSE IF ~is_admin(from_user, chat)
           THEN /\ keyIn' = [op EXCEPT !.answer = "refused"]
                /\ UNCHANGED <<movieFile, rutubeFile, fs>>
           ELSE /\ keyIn' = [op EXCEPT !.answer = "cleared",
                                       !.flags = CommandFlags(cmd)]
                /\ ClearApply(CommandFlags(cmd))
    /\ ClearFrame

\* the backing files the commands may find: empty, holding an entry,
\* removed or spoiled
StoredMovieFile ==
    [st |-> "ok",
     data |-> DictSet(EmptyDict, get_cache_key(QueryA),
                      [timestamp |-> 0,
                       data |-> Movie(301, <<"a", " ", "b">>, <<"d">>, <<"p">>),
                       original_query |-> QueryA])]

StoredRutubeFile ==
    [st |-> "ok",
     data |-> DictSet(EmptyDict, get_cache_key(QueryA),
                      [timestamp |-> 0,
                       links |-> <<Link(<<"a">>, <<"u">>, FALSE)>>,
                       original_query |-> QueryA])]

DamagedFiles == { [st |-> kind, data |-> EmptyDict] : kind \in FileStates \ {"ok"} }

InitClear ==
    /\ now = 0
    /\ ticks = 0
    /\ movieFile \in {EmptyFile, StoredMovieFile} \cup DamagedFiles
    /\ rutubeFile \in {EmptyFile, StoredRutubeFile} \cup DamagedFiles
    /\ InitKVHist
    /\ rt = <<>>
    /\ kp = <<>>
    /\ lastRt = <<>>
    /\ apiCount = 0
    /\ req = <<>>
    /\ settings = InitSettings
    /\ keyIn = NoCommand
    /\ fs \in { [posters |-> ps, tmp |-> ts] :
                  ps \in { {}, {PosterFile(301, 0, 0)},
                           {PosterFile(301, 0, 0), PosterFile(302, 0, 1)} },
                  ts \in { {}, {TempFile(1000, "poster")} } }
    /\ posterOp = NoPosterOp
    /\ post = <<>>
    /\ proc = <<>>
    /\ db = <<>>
    /\ host = <<>>

NextClear ==
    \/ \E flags \in AllFlags : ClearCall(flags)
    \/ \E cmd \in ClearCommands, sender \in Senders :
          HandleClear(cmd, sender[1], sender[2])

SpecClear == InitClear /\ [][NextClear]_vars

----------------------------------------------------------------------------
(* Claims on the KV store, checked under SpecKV *)

FileOf(ns) == IF ns = "movie" THEN movieFile ELSE rutubeFile

PutThenGet ==
    /\ kvOp.op = "get"
    /\ kvPrev.op = "put"
    /\ kvPrev.ns = kvOp.ns
    /\ kvPrev.pre = "ok"

\* C3: in each namespace, with the backing file initialised, put(q, v)
\* immediately followed by get(q), the clock still inside the expiry window,
\* returns exactly v.
C3_RoundTrip ==
    (PutThenGet /\ kvPrev.q = kvOp.q
                /\ kvOp.at - kvPrev.at <= CACHE_EXPIRY_DAYS)
        => (kvOp.ret.hit /\ kvOp.ret.val = kvPrev.v)

C3_Witness ==
    /\ PutThenGet
    /\ kvPrev.q = kvOp.q
    /\ kvOp.at > kvPrev.at
    /\ kvOp.at - kvPrev.at <= CACHE_EXPIRY_DAYS
    /\ kvOp.ret.hit

StoredEntry(op) == FileOf(op.ns).data[get_cache_key(op.q)]

PayloadOf(ns, entry) == IF ns = "movie" THEN entry.data ELSE entry.links

GetOfStored ==
    /\ kvOp.op = "get"
    /\ kvOp.pre = "ok"
    /\ get_cache_key(kvOp.q) \in DOMAIN FileOf(kvOp.ns).data

\* C4: in both namespaces get(q) for a stored entry returns its payload if
\* and only if now - createdAt <= 21 days: aged exactly 21 days it is a
\* hit, older it is a miss.
C4_ExpiryBoundary ==
    GetOfStored =>
        LET e == StoredEntry(kvOp)
        IN  /\ kvOp.ret.hit <=> (kvOp.at - e.timestamp <= CACHE_EXPIRY_DAYS)
            /\ kvOp.ret.hit => kvOp.ret.val = PayloadOf(kvOp.ns, e)

C4_Witness ==
    /\ GetOfStored
    /\ kvOp.at - StoredEntry(kvOp).timestamp = CACHE_EXPIRY_DAYS
    /\ kvOp.ret.hit

\* C7: when the backing file is missing, unreadable or corrupt, get returns
\* None and put returns False without changing the file; neither raises.
C7_DamagedFile ==
    /\ (kvOp.op = "get" /\ kvOp.pre # "ok")
          => (~kvOp.ret.hit /\ ~kvOp.raised)
    /\ (kvOp.op = "put" /\ kvOp.pre # "ok")
          => /\ ~kvOp.ok
             /\ ~kvOp.raised
             /\ FileOf(kvOp.ns) = [st |-> kvOp.pre, data |-> EmptyDict]

C7_Witness ==
    /\ kvOp.op = "put"
    /\ kvOp.pre = "missing"
    /\ kvPrev.op = "damage"
    /\ ~kvOp.ok

----------------------------------------------------------------------------
(* The fingerprint on all short strings: put under one, get under another *)

Chars == {"a", "A", " "}

Strings == UNION { [1..n -> Chars] : n \in 0..MaxQueryLen }

KeyPut ==
    /\ kvCount = 0
    /\ \/ \E v \in MovieSamples : KVSaveMovie(keyIn.a, v)
       \/ \E l \in LinkSamples : KVSaveRutube(keyIn.a, l)

KeyGet ==
    /\ kvCount = 1
    /\ \/ kvOp.ns = "movie" /\ KVGetMovie(keyIn.b)
       \/ kvOp.ns = "links" /\ KVGetRutube(keyIn.b)

InitKey ==
    /\ InitFiles
    /\ InitKVHist
    /\ rt = <<>>
    /\ kp = <<>>
    /\ lastRt = <<>>
    /\ apiCount = 0
    /\ req = <<>>
    /\ settings = InitSettings
    /\ keyIn \in [a : Strings, b : Strings]
    /\ InitPosters

NextKey == KeyPut \/ KeyGet

SpecKey == InitKey /\ [][NextKey]_vars

\* lowercased, whitespace-collapsed, trimmed: one scan over the characters
RECURSIVE NormalScan(_, _, _, _)
NormalScan(s, i, out, pending) ==
    IF i > Len(s) THEN out
    ELSE IF IsSpace(s[i]) THEN NormalScan(s, i + 1, out, out # <<>>)
    ELSE NormalScan(s, i + 1,
                    (IF pending THEN Append(out, " ") ELSE out) \o <<Lower(s[i])>>,
                    FALSE)

NormalForm(s) == NormalScan(s, 1, <<>>, FALSE)

\* C5: for all a and b whose lowercased, whitespace-collapsed, trimmed forms
\* are equal, get_cache_key(a) = get_cache_key(b), so a put under a is read
\* back by a get under b.
C5_FingerprintDeterminism ==
    NormalForm(keyIn.a) = NormalForm(keyIn.b) =>
        /\ get_cache_key(keyIn.a) = get_cache_key(keyIn.b)
        /\ (kvOp.op = "get" /\ kvPrev.op = "put")
              => (kvOp.ret.hit /\ kvOp.ret.val = kvPrev.v)

C5_Witness ==
    /\ keyIn.a # keyIn.b
    /\ Len(keyIn.a) = Len(keyIn.b)
    /\ str_lower(keyIn.a) # str_lower(keyIn.b)
    /\ NormalForm(keyIn.a) = NormalForm(keyIn.b)
    /\ Len(NormalForm(keyIn.a)) > 2
    /\ kvOp.op = "get"
    /\ kvPrev.op = "put"
    /\ kvOp.ret.hit

----------------------------------------------------------------------------
(* Claims on search_rutube_api, checked under SpecRt *)

\* C1: if search_rutube_api(q) hits a provider failure and returns an empty
\* list, the next call with the same query performs the network request
\* again; it is never answered from a cached empty list.
C1_FailureNotCached ==
    \A c \in Callers :
        (rt[c].pc \in {"net", "done"} /\ rt[c].prev.failed /\ rt[c].prev.q = rt[c].q)
            => (rt[c].usedNet /\ ~rt[c].fromCache)

FreshNonEmpty(c) ==
    /\ rt[c].pc = "done"
    /\ rt[c].usedNet
    /\ rt[c].ret # <<>>
    /\ rutubeFile.st = "ok"

\* C2: after search_rutube_api(q) returns a non-empty freshly fetched list
\* L, the links namespace holds an entry under get_cache_key(q) whose payload
\* is L, so a second call inside the 21-day window returns the same links in
\* the same order, each marked from_cache, without a network request.
C2_FreshListCached ==
    \A c \in Callers :
        FreshNonEmpty(c) =>
            /\ get_cache_key(rt[c].q) \in DOMAIN rutubeFile.data
            /\ rutubeFile.data[get_cache_key(rt[c].q)].links = rt[c].ret
            /\ (now - rutubeFile.data[get_cache_key(rt[c].q)].timestamp
                    <= CACHE_EXPIRY_DAYS)
                  => /\ get_rutube_from_cache(rt[c].q).ret.hit
                     /\ MarkFromCache(get_rutube_from_cache(rt[c].q).ret.val)
                            = MarkFromCache(rt[c].ret)

\* C9: search_rutube_api never raises: for every outcome of the video-search
\* call and of the cache read and write it returns a list, empty when
\* nothing usable was obtained.
C9_RutubeNeverRaises ==
    \A c \in Callers :
        rt[c].pc = "done" =>
            /\ ~rt[c].raised
            /\ (rt[c].usedNet /\ rt[c].failed) => rt[c].ret = <<>>
            /\ \A i \in 1..Len(rt[c].ret) : rt[c].ret[i].url # <<>>

C9_Witness ==
    \E c \in Callers :
        /\ rt[c].pc = "done"
        /\ rt[c].usedNet
        /\ rt[c].failed
        /\ rutubeFile.st = "corrupt"
        /\ ~rt[c].saved.ok
        /\ rt[c].ret = <<>>

----------------------------------------------------------------------------
(* Claims on get_kinopoisk_data, checked under SpecKp *)

\* C8: get_kinopoisk_data never raises: for every outcome of the catalog
\* search and of the details call it returns a movie record or {}.
C8_KinopoiskNeverRaises ==
    \A c \in Callers : kp[c].pc = "done" => ~kp[c].raised

----------------------------------------------------------------------------
(* Claims on concurrent writers, checked under SpecPut *)

\* the step changes, in file, at most the entry under key
OnlyEntryChanged(old, new, key) ==
    /\ new.st = old.st
    /\ \A k \in DOMAIN old.data :
          k # key => (k \in DOMAIN new.data /\ new.data[k] = old.data[k])
    /\ \A k \in DOMAIN new.data : k \notin DOMAIN old.data => k = key

RtPutStep(c) ==
    rt[c].pc = "net" /\ rt'[c].pc = "done"

KpPutStep(c) ==
    kp[c].pc \in {"search", "details"} /\ kp'[c].pc = "done" /\ kp'[c].saved.did

\* C6: under any interleaving of concurrent requests a put into a KV
\* namespace changes only the entry of its own fingerprint: every entry
\* under another fingerprint keeps its payload and timestamp, and the entry
\* written is the complete payload of the writer.
C6_PutChangesOwnEntryOnly ==
    [][ \A c \in Callers :
          /\ RtPutStep(c) =>
                /\ movieFile' = movieFile
                /\ IF rt'[c].saved.ok
                   THEN LET key == get_cache_key(rt'[c].saved.q)
                        IN  /\ OnlyEntryChanged(rutubeFile, rutubeFile', key)
                            /\ rutubeFile'.data[key] =
                                  [timestamp |-> now, links |-> rt'[c].ret,
                                   original_query |-> rt'[c].saved.q]
                   ELSE rutubeFile' = rutubeFile
          /\ KpPutStep(c) =>
                /\ rutubeFile' = rutubeFile
                /\ IF kp'[c].saved.ok
                   THEN LET key == get_cache_key(kp[c].q)
                        IN  /\ OnlyEntryChanged(movieFile, movieFile', key)
                            /\ movieFile'.data[key] =
                                  [timestamp |-> now, data |-> kp'[c].ret.rec,
                                   original_query |-> kp[c].q]
                   ELSE movieFile' = movieFile
      ]_vars

\* two calls that both missed the cache have written, one after the other,
\* different payloads under one fingerprint, beside another entry
C6_Witness ==
    /\ rt["c1"].pc = "done" /\ rt["c2"].pc = "done"
    /\ rt["c1"].usedNet /\ rt["c2"].usedNet
    /\ rt["c1"].q = rt["c2"].q
    /\ rt["c1"].saved.ok /\ rt["c2"].saved.ok
    /\ get_cache_key(rt["c1"].saved.q) = get_cache_key(rt["c2"].saved.q)
    /\ rt["c1"].ret # rt["c2"].ret
    /\ rutubeFile.data[get_cache_key(rt["c1"].saved.q)].links \in {rt["c1"].ret, rt["c2"].ret}

----------------------------------------------------------------------------
(* Claims on handle_message, checked under SpecReq *)

\* the request ran with both sources on and its response stage has ended
\* (with a response or with an exception), the history store having worked
BothOnAndRendered(r) ==
    /\ req[r].collected
    /\ req[r].links_on /\ req[r].kp_on
    /\ req[r].pc \in {"poster", "send", "crashed"}
    /\ ~req[r].dbFailed

KpTaskFailed(r) == kp[r].raised \/ kp[r].ret.empty

RtTaskFailed(r) == rt[r].raised \/ rt[r].ret = <<>>

LinksInResponse(r) ==
    /\ ~req[r].raised
    /\ req[r].response.links = RenderLinks(rt[r].ret)

InfoInResponse(r) ==
    /\ ~req[r].raised
    /\ req[r].response.info.shown
    /\ req[r].response.info.title = html_escape(kp[r].ret.rec.nameRu)
    /\ req[r].response.info.description = html_escape(kp[r].ret.rec.description)

\* C10: in a request with both sources enabled, when one adapter task failed
\* (returned empty or ended with an exception) the result of the other one is
\* collected and is part of the merged response.
C10_SiblingResultKept ==
    \A r \in Callers :
        BothOnAndRendered(r) =>
            /\ (KpTaskFailed(r) /\ ~RtTaskFailed(r)) => LinksInResponse(r)
            /\ (RtTaskFailed(r) /\ ~KpTaskFailed(r)) => InfoInResponse(r)

\* the request has ended with the 'all sources disabled' answer
EndedDisabled(r) ==
    req[r].pc = "done" /\ req[r].answers = <<"loading", "disabled">>

\* C11: when both toggles are off at the moment the request reads them, the
\* request ends with the 'all sources disabled' answer; that step and every
\* later one launch no adapter for it, and the step writes no cache file.
C11_DisabledShortCircuit ==
    [][ \A r \in Callers :
          /\ (req[r].pc = "loading" /\ req'[r].pc # "loading"
                /\ ~settings.links_on /\ ~settings.kp_on) =>
                /\ req'[r].pc = "done"
                /\ req'[r].answers = <<"loading", "disabled">>
                /\ ~req'[r].collected
                /\ rt' = rt /\ kp' = kp
                /\ movieFile' = movieFile /\ rutubeFile' = rutubeFile
          /\ EndedDisabled(r) =>
                /\ rt[r] = IdleRt /\ kp[r] = IdleKp
                /\ rt'[r] = IdleRt /\ kp'[r] = IdleKp
                /\ req'[r] = req[r]
      ]_vars

\* one request has ended as disabled while the other, which read the toggles
\* when they were on, has been to the network
C11_Witness ==
    \E r, o \in Callers :
        /\ EndedDisabled(r)
        /\ ~req[r].links_on /\ ~req[r].kp_on
        /\ req[o].pc = "gather" /\ rt[o].usedNet

\* the request has built its response
Rendered(r) == req[r].collected /\ req[r].pc \in {"poster", "send"}

\* every source the request had enabled returned nothing
AllEnabledEmpty(r) ==
    /\ req[r].kp_on => KpTaskFailed(r)
    /\ req[r].links_on => RtTaskFailed(r)

\* C12: a request with at least one source enabled is never answered with
\* the 'sources disabled' outcome, and when every enabled source returned
\* empty it is answered with the 'no results found' outcome.
C12_NoResultsNotDisabled ==
    \A r \in Callers :
        (Rendered(r) /\ (req[r].links_on \/ req[r].kp_on)) =>
            /\ ~req[r].response.off
            /\ AllEnabledEmpty(r) => req[r].response.note = "nothing_found"

\* the request was stopped by one of the gates of lines 55-74
StoppedAtGate(r) ==
    req[r].pc = "done" /\ req[r].answers \in {<<>>, <<"command_hint">>, <<"no_user">>}

\* db.add_search raised (the only way to crash before the tasks are collected)
SearchFailed(r) == req[r].pc = "crashed" /\ ~req[r].collected

\* C13: every request that passes the command-keyword gate with an
\* identified user calls db.add_search exactly once; whenever an adapter of
\* the request has been launched the call has already returned, and the
\* record is there whatever the outcome is.
C13_SearchRecordedOnceFirst ==
    \A r \in Callers :
        /\ req[r].searchCalls <= 1 /\ req[r].searches <= req[r].searchCalls
        /\ (req[r].pc # "idle" /\ ~StoppedAtGate(r)) => req[r].searchCalls = 1
        /\ (rt[r].pc # "idle" \/ kp[r].pc # "idle") => req[r].searches = 1
        /\ (req[r].pc \in {"loading", "gather", "add_movie", "poster", "send"}
              \/ EndedDisabled(r) \/ req[r].collected) => req[r].searches = 1
        /\ SearchFailed(r) => (rt[r].pc = "idle" /\ kp[r].pc = "idle")

\* outcomes of every kind with the search recorded: one request ended as
\* disabled, the other crashed while rendering after an adapter failure
C13_Witness ==
    \E r, o \in Callers :
        /\ EndedDisabled(r) /\ req[r].searches = 1
        /\ req[o].pc = "crashed" /\ req[o].collected /\ RtTaskFailed(o)
        /\ req[o].searches = 1

\* every adapter task the request launched has ended
TasksEnded(r) ==
    /\ req[r].links_on => rt[r].pc = "done"
    /\ req[r].kp_on => kp[r].pc = "done"

\* C14: db.add_movie is called exactly once when the merged result has a
\* metadata record (fresh or from the cache) and not at all otherwise, and
\* only after every launched adapter has finished.
C14_MovieRecordedOnce ==
    \A r \in Callers :
        /\ req[r].movieCalls <= 1 /\ req[r].movies <= req[r].movieCalls
        /\ req[r].movieCalls = 1 => (req[r].collected /\ TasksEnded(r))
        /\ req[r].collected =>
              (req[r].movieCalls = 1 <=> (req[r].kp_on /\ ~KpTaskFailed(r)))
        /\ (req[r].collected /\ req[r].movieCalls = 1) =>
              req[r].kinopoisk_data = kp[r].ret
        /\ (req[r].pc \in {"poster", "send"} /\ req[r].movieCalls = 1) =>
              req[r].movies = 1

\* a fresh record and the same record served from the cache to the other
\* request were both recorded
C14_Witness ==
    \E r, o \in Callers :
        /\ req[r].pc \in {"poster", "send"} /\ kp[r].fromCache /\ req[r].movies = 1
        /\ req[o].pc \in {"poster", "send"} /\ kp[o].usedNet /\ req[o].movies = 1
        /\ rt[o].pc = "done"

----------------------------------------------------------------------------
(* Claims on find_exact_match, checked under SpecMatch *)

MatchAlts == AltTitles(str_strip(str_lower(keyIn.query)))

CleanTitle(i) == str_strip(str_lower(keyIn.results[i].title))

\* the positions of the results of each priority class
ExactSet == { i \in 1..Len(keyIn.results) : CleanTitle(i) \in MatchAlts }

WordSet ==
    { i \in 1..Len(keyIn.results) :
        \E alt \in MatchAlts : alt \in SeqToSet(str_split(CleanTitle(i))) }

SubSet ==
    { i \in 1..Len(keyIn.results) :
        \E alt \in MatchAlts : str_contains(CleanTitle(i), alt) }

Least(S) == CHOOSE i \in S : \A j \in S : i <= j

ByPriority ==
    IF ExactSet # {} THEN Least(ExactSet)
    ELSE IF WordSet # {} THEN Least(WordSet)
    ELSE IF SubSet # {} THEN Least(SubSet)
    ELSE 1

\* C15: the result used is chosen by strict priority over the whole list:
\* the first whose title equals the query or one of its alternates (case
\* and surrounding blanks ignored), else the first with an alternate among
\* its blank-separated words, else the first containing an alternate, else
\* the top-ranked one.
C15_StrictPriority ==
    keyIn.called => (~keyIn.raised /\ keyIn.picked = ByPriority)

----------------------------------------------------------------------------
(* Claims on records without identity, checked under SpecReq *)

\* the record carries neither a catalog identifier nor a title
LacksIdentity(rec) == rec.kinopoiskId = 0 /\ rec.nameRu \in {<<>>, NoneStr}

\* C16: a metadata record that lacks both the identifier and the title is
\* no result: get_kinopoisk_data does not return it, and handle_message
\* neither renders it nor passes it to db.add_movie.
C16_NoIdentityNoResult ==
    \A r \in Callers :
        /\ (kp[r].pc = "done" /\ ~kp[r].ret.empty) => ~LacksIdentity(kp[r].ret.rec)
        /\ (req[r].movieCalls = 1 \/ req[r].response.info.shown) =>
              ~LacksIdentity(req[r].kinopoisk_data.rec)

----------------------------------------------------------------------------
(* Claims on the poster store, checked under SpecPoster *)

\* the files of the asked movie before the call, and those of them that are
\* within the 21-day window at the time of the call
AskedFiles == { f \in posterOp.pre : f.id = posterOp.id }

\* the age of a file at the call, in 1/ClockParts of a day
PosterAge(f) == ClockParts * (posterOp.time - f.ts) + posterOp.cfrac - f.frac

AskedFresh == { f \in AskedFiles : PosterAge(f) <= ClockParts * CACHE_EXPIRY_DAYS }

\* C18: get_cached_poster_path(movieId) returns the path of a poster file of
\* movieId whenever the poster directory holds one that is within the 21-day
\* window; when the file found for movieId is expired it deletes that file
\* and returns None; when there is no file of movieId it returns None.
C18_PosterLookup ==
    posterOp.op = "get" =>
        /\ AskedFresh # {} =>
              (posterOp.ret.found /\ posterOp.ret.file \in AskedFiles)
        /\ (AskedFiles # {} /\ AskedFresh = {}) =>
              /\ ~posterOp.ret.found
              /\ \E f \in AskedFiles : fs.posters = posterOp.pre \ {f}
        /\ AskedFiles = {} => ~posterOp.ret.found

----------------------------------------------------------------------------
(* Claims on the poster stage and the sending, checked under SpecDeliver *)

PostEnded(r) == post[r].pc \in {"done", "crashed"}

\* the cache had no poster and the download gave none
RealPosterFailed(r) ==
    post[r].tried /\ (post[r].synth \/ post[r].paths = <<>>)

\* C17: when the record has a poster URL and obtaining the real poster
\* fails, the request still completes and is answered with a poster: a
\* placeholder written to a temporary file outside the poster directory
\* (the drawing of the placeholder and the sending to Telegram working).
C17_PlaceholderOnFailure ==
    \A r \in Callers :
        (PostEnded(r) /\ post[r].url /\ RealPosterFailed(r) /\ ~post[r].fault) =>
            /\ post[r].pc = "done"
            /\ post[r].paths # <<>>
            /\ post[r].paths[1].dir # POSTERS_DIR
            /\ post[r].answers # <<>>
            /\ post[r].answers[1] = "photo:placeholder"

\* poster_loaded and poster_paths of line 373
PosterProduced(r) == post[r].loaded /\ post[r].paths # <<>>

\* the step with which request r ends
PostEnds(r) ==
    /\ post[r].pc \notin {"done", "crashed"}
    /\ post'[r].pc \in {"done", "crashed"}

----------------------------------------------------------------------------
(* Claims on the command keyword gate, checked under SpecReq *)

\* the request's trimmed text, lowercased, is a command keyword
LooksLikeCommand(r) ==
    req[r].pc # "idle" /\ str_lower(req[r].query) \in command_keywords

\* C20: when the trimmed, lowercased message text is one of the command
\* keywords, handle_message answers with the command hint and stops: no
\* adapter is launched, no history record is written, no cache is read or
\* written for it, and the toggles are not read.
C20_CommandGate ==
    \A r \in Callers :
        LooksLikeCommand(r) =>
            /\ req[r].pc = "done"
            /\ req[r].answers = <<"command_hint">>
            /\ req[r].searchCalls = 0 /\ req[r].searches = 0
            /\ req[r].movieCalls = 0 /\ req[r].movies = 0
            /\ rt[r] = IdleRt /\ kp[r] = IdleKp
            /\ ~req[r].links_on /\ ~req[r].kp_on
            /\ ~req[r].collected /\ req[r].response = NoResponse

\* " Help" was received and stopped at the gate while the other request
\* went on to its adapters
C20_Witness ==
    \E r \in Callers, o \in Callers :
        /\ req[r].query = <<"H", "e", "l", "p">>
        /\ req[r].answers = <<"command_hint">>
        /\ req[o].pc = "gather"

----------------------------------------------------------------------------
(* Claims on the whole request *)

\* C21: every request that enters the pipeline ends with a final answer for
\* every combination of adapter outcomes, records with null fields among
\* them: no exception escapes handle_message instead of an answer (the
\* database working).
C21_NoEscapingException ==
    \A r \in Callers :
        (req[r].pc = "crashed" \/ req[r].raised) => req[r].dbFailed

----------------------------------------------------------------------------
(* main.py: the start of the process; utils/api.py: the use of the tokens *)

\* the process after load_dotenv(): telegram and kinopoisk tell whether
\* TELEGRAM_TOKEN and KINOPOISK_TOKEN are set to a non-empty value; served
\* is what search_kinopoisk returned to each request so far
ProcAt(telegram, kinopoisk) ==
    [phase |-> "module", telegram |-> telegram, kinopoisk |-> kinopoisk,
     served |-> <<>>, missing |-> FALSE]

\* main.py lines 81-86: without TELEGRAM_TOKEN the module exits; nothing
\* looks at KINOPOISK_TOKEN
ModuleInit ==
    /\ proc.phase = "module"
    /\ proc' = [proc EXCEPT !.phase = IF proc.telegram THEN "main" ELSE "exited"]
    /\ UNCHANGED <<now, ticks, movieFile, rutubeFile, kvVars, apiVars, req, settings,
                   keyIn, fs, posterOp, post, db, host>>

\* main.py lines 113-139: main() up to dp.start_polling; ok is whether
\* bot.get_me() succeeded
Main(ok) ==
    /\ proc.phase = "main"
    /\ proc' = [proc EXCEPT !.phase = IF ok THEN "polling" ELSE "exited"]
    /\ UNCHANGED <<now, ticks, movieFile, rutubeFile, kvVars, apiVars, req, settings,
                   keyIn, fs, posterOp, post, db, host>>

\* utils/api.py lines 75-79: os.getenv("KINOPOISK_TOKEN") is read by each
\* search_kinopoisk call; without it the call returns None
ServeSearch(resp) ==
    /\ proc.phase = "polling"
    /\ Len(proc.served) < MaxApiCalls
    /\ (resp.kind = "no_token") <=> ~proc.kinopoisk
    /\ proc' = [proc EXCEPT !.served = Append(@, search_kinopoisk(resp)),
                            !.missing = @ \/ ~proc.kinopoisk]
    /\ UNCHANGED <<now, ticks, movieFile, rutubeFile, kvVars, apiVars, req, settings,
                   keyIn, fs, posterOp, post, db, host>>

\* utils/api.py lines 129-132: get_film_details reads the token as well;
\* without it the call returns None
ServeDetails(details) ==
    /\ proc.phase = "polling"
    /\ Len(proc.served) < MaxApiCalls
    /\ ~proc.kinopoisk => details = NoDetails
    /\ proc' = [proc EXCEPT !.served = Append(@, IF details = NoDetails THEN <<>>
                                                 ELSE <<details>>),
                            !.missing = @ \/ ~proc.kinopoisk]
    /\ UNCHANGED <<now, ticks, movieFile, rutubeFile, kvVars, apiVars, req, settings,
                   keyIn, fs, posterOp, post, db, host>>

InitStart ==
    /\ InitFiles
    /\ InitKVHist
    /\ rt = <<>>
    /\ kp = <<>>
    /\ lastRt = <<>>
    /\ apiCount = 0
    /\ req = <<>>
    /\ settings = InitSettings
    /\ keyIn = <<>>
    /\ fs = [posters |-> {}, tmp |-> {}]
    /\ posterOp = NoPosterOp
    /\ post = <<>>
    /\ proc \in { ProcAt(t, k) : t \in BOOLEAN, k \in BOOLEAN }
    /\ db = <<>>
    /\ host = <<>>

NextStart ==
    \/ ModuleInit
    \/ \E ok \in BOOLEAN : Main(ok)
    \/ \E resp \in KpSearchResponses : ServeSearch(resp)
    \/ \E details \in KpDetailsResponses : ServeDetails(details)

SpecStart == InitStart /\ [][NextStart]_vars

\* C22: if a required credential (the Telegram token or the catalog token)
\* is missing at startup, the process stops before any request is served; a
\* missing credential is never discovered only while handling a request.
C22_FailFast ==
    (~proc.telegram \/ ~proc.kinopoisk) =>
        (proc.phase # "polling" /\ proc.served = <<>> /\ ~proc.missing)

----------------------------------------------------------------------------
(* Claims on the content of the two namespaces *)

\* C23: in every reachable state no entry of the links namespace holds an
\* empty link sequence: search_rutube_api writes to the links cache only
\* when the list it obtained is non-empty.
C23_NoEmptyLinksEntry ==
    rutubeFile.st = "ok" =>
        \A k \in DOMAIN rutubeFile.data : rutubeFile.data[k].links # <<>>

\* the step with which the search request of caller c ends in failure or
\* with no film
KpSearchFails(c) ==
    kp[c].pc = "search" /\ kp'[c].pc = "done" /\ kp'[c].failed

\* C24: in every reachable state every entry of the metadata namespace
\* holds a record with a non-empty catalog identifier: get_kinopoisk_data
\* writes only after a fetch that produced an identifier, and a failed or
\* empty fetch returns the empty record and leaves the namespace unchanged.
C24_MetadataEntriesHaveId ==
    /\ [](movieFile.st = "ok" =>
            \A k \in DOMAIN movieFile.data :
                movieFile.data[k].data.kinopoiskId # 0)
    /\ [](\A c \in Callers :
            /\ kp[c].saved.did =>
                  (kp[c].usedNet /\ ~kp[c].failed /\ ~kp[c].ret.empty
                     /\ kp[c].ret.rec.kinopoiskId # 0)
            /\ (kp[c].pc = "done" /\ kp[c].failed) =>
                  (kp[c].ret = EmptyRecord /\ ~kp[c].raised /\ ~kp[c].saved.did))
    /\ [][\A c \in Callers : KpSearchFails(c) => movieFile' = movieFile]_vars

\* the namespace holds an entry, and the last call, for another query, ended
\* with a failed or empty fetch
C24_Witness ==
    /\ movieFile.st = "ok"
    /\ DOMAIN movieFile.data # {}
    /\ kp["c1"].pc = "done" /\ kp["c1"].failed
    /\ get_cache_key(kp["c1"].q) \notin DOMAIN movieFile.data

\* the file of the namespace of the last KV operation
KVFileOf(ns) == IF ns = "movie" THEN movieFile ELSE rutubeFile

\* the last KV operation was a get whose entry exists and was expired then
ExpiredGet ==
    /\ kvOp.op = "get"
    /\ kvOp.q # NoneStr
    /\ KVFileOf(kvOp.ns).st = "ok"
    /\ get_cache_key(kvOp.q) \in DOMAIN KVFileOf(kvOp.ns).data
    /\ Expired(KVFileOf(kvOp.ns).data[get_cache_key(kvOp.q)].timestamp, kvOp.at)

\* C25: a get on either KV namespace never changes the backing store: a get
\* that finds an expired entry returns None and leaves that entry, and every
\* other entry, in place.
C25_GetLeavesStore ==
    /\ [][(kvCount' = kvCount + 1 /\ kvOp'.op = "get") =>
             (movieFile' = movieFile /\ rutubeFile' = rutubeFile)]_vars
    /\ [](ExpiredGet => kvOp.ret = Miss)

\* an entry of the metadata namespace was looked up after its expiry
C25_Witness ==
    /\ ExpiredGet
    /\ kvOp.ns = "movie"
    /\ kvOp.ret = Miss
    /\ kvPrev.op = "put"

----------------------------------------------------------------------------
(* Claims on the fresh list of search_rutube_api *)

\* the provider results that have a non-empty URL, in the provider's order
WithUrl(results) == SelectSeq(results, LAMBDA d : d.video_url # <<>>)

\* the first (at most three) of them, as fresh links
FirstWithUrl(results) ==
    LET w == WithUrl(results)
        n == IF Len(w) < MAX_RUTUBE_LINKS THEN Len(w) ELSE MAX_RUTUBE_LINKS
    IN  [i \in 1..n |-> Link(w[i].title, w[i].video_url, FALSE)]

\* C26: the list returned by a fresh search_rutube_api fetch consists of the
\* first (at most three) provider results that have a non-empty URL, in the
\* provider's order, each marked from_cache = False; it never has more than
\* three elements and never an element with an empty URL.
C26_FreshListIsFirstThree ==
    [][\A c \in Callers, resp \in RutubeResponses :
          (resp.kind = "ok" /\ RtResponse(c, resp)) =>
              /\ rt'[c].ret = FirstWithUrl(resp.results)
              /\ Len(rt'[c].ret) <= MAX_RUTUBE_LINKS
              /\ \A i \in 1..Len(rt'[c].ret) :
                    rt'[c].ret[i].url # <<>> /\ ~rt'[c].ret[i].from_cache]_vars

----------------------------------------------------------------------------
(* Claims on the cache hit of get_kinopoisk_data *)

\* the metadata namespace holds an unexpired entry for the fingerprint of q
FreshMovieEntry(q) ==
    /\ q # NoneStr
    /\ movieFile.st = "ok"
    /\ get_cache_key(q) \in DOMAIN movieFile.data
    /\ ~Expired(movieFile.data[get_cache_key(q)].timestamp, now)

\* the step is a call get_kinopoisk_data(q) by caller c: a call is counted,
\* c's record is that of a call with q, no other caller moved
KpCalled(c, q) ==
    /\ apiCount' = apiCount + 1
    /\ kp[c].pc \in {"idle", "done"}
    /\ kp'[c].pc \in {"search", "done"}
    /\ kp'[c].q = q
    /\ rt' = rt
    /\ \A o \in Callers \ {c} : kp'[o].pc = kp[o].pc /\ kp'[o].q = kp[o].q

\* C27: when the metadata namespace holds an unexpired entry for the
\* query's fingerprint, get_kinopoisk_data returns that payload (marked as
\* coming from the cache), makes no call to the catalog search or details
\* endpoint, and does not rewrite the cache entry.
C27_HitNeedsNoFetch ==
    [][\A c \in Callers :
          (KpCalled(c, kp'[c].q) /\ FreshMovieEntry(kp'[c].q)) =>
              /\ kp'[c].pc = "done"
              /\ ~kp'[c].usedNet /\ ~kp'[c].saved.did /\ ~kp'[c].raised
              /\ ~kp'[c].ret.empty
              /\ kp'[c].ret.rec = [movieFile.data[get_cache_key(kp'[c].q)].data
                                      EXCEPT !.cache_source = TRUE]
              /\ movieFile' = movieFile]_<<apiCount, vars>>

\* a call was answered from an entry written at least a day before
C27_Witness ==
    \E c \in Callers :
        /\ kp[c].pc = "done" /\ kp[c].fromCache /\ ~kp[c].usedNet
        /\ FreshMovieEntry(kp[c].q)
        /\ now > movieFile.data[get_cache_key(kp[c].q)].timestamp
        /\ kp[c].ret.rec.kinopoiskId # 0

----------------------------------------------------------------------------
(* Claims on the merge of the two adapters *)

\* something of the result of request r has been produced for the user, or
\* db.add_movie has been called
ResultOut(r) ==
    \/ req[r].collected
    \/ req[r].movieCalls > 0
    \/ req[r].response # NoResponse
    \/ req[r].pc \in {"add_movie", "poster", "send"}

\* C28: within one request nothing of the result is sent to the user and
\* no add_movie side effect happens before every launched adapter task has
\* completed; the two adapter tasks may complete in either order.
C28_MergeWaitsForAll ==
    \A r \in Callers : ResultOut(r) => TasksEnded(r)

\* both orders: in one request the links task is done and the metadata task
\* is not, in the other the metadata task is done and the links task is not
C28_Witness ==
    \E r \in Callers, o \in Callers :
        /\ req[r].pc = "gather" /\ req[r].links_on /\ req[r].kp_on
        /\ rt[r].pc = "done" /\ kp[r].pc # "done"
        /\ req[o].pc = "gather" /\ req[o].links_on /\ req[o].kp_on
        /\ kp[o].pc = "done" /\ rt[o].pc # "done"

----------------------------------------------------------------------------
(* Claims on the poster cache as the requests use it, under SpecDeliver *)

\* the age of poster file f for a lookup made at clock fraction cfrac, in
\* 1/ClockParts of a day
StoredAge(f, cfrac) == ClockParts * (now - f.ts) + cfrac - f.frac

\* the poster directory holds a file of movie id that is within the 21-day
\* window
StoredFresh(id, cfrac) ==
    \E f \in fs.posters :
        f.id = id /\ StoredAge(f, cfrac) <= ClockParts * CACHE_EXPIRY_DAYS

\* request r has downloaded the poster of a record with an identifier and
\* the cache accepted it
DownloadedWithId(r) ==
    /\ post[r].tried /\ post[r].loaded /\ ~post[r].synth /\ ~post[r].made
    /\ post[r].id # 0

\* C29: after a request downloaded a poster successfully for a record with
\* a catalog identifier, the poster is stored by save_poster_to_cache, and a
\* later request for the same identifier inside the 21-day window uses the
\* stored file and makes no poster network fetch.
C29_StoredPosterIsReused ==
    /\ [][\A r \in Callers :
            (post[r].pc = "download" /\ DownloadedWithId(r)') =>
                /\ post'[r].paths[1].dir = POSTERS_DIR
                /\ post'[r].paths[1].file \in fs'.posters
                /\ post'[r].paths[1].file.id = post[r].id
                /\ post'[r].paths[1].file.ts = now]_vars
    /\ [][\A r \in Callers, name \in RandomNames, cfrac \in ClockFracs :
            (/\ ReqPosterStart(r, name, cfrac)
             /\ post[r].url /\ post[r].id # 0
             /\ StoredFresh(post[r].id, cfrac)) =>
                /\ post'[r].pc = "send_delete"
                /\ ~post'[r].tried
                /\ post'[r].paths[1].dir = POSTERS_DIR
                /\ post'[r].paths[1].file \in fs.posters
                /\ post'[r].paths[1].file.id = post[r].id]_vars

\* request r was given the placeholder, or no poster at all, after the
\* download failed
FellBack(r) ==
    post[r].tried /\ (post[r].synth \/ ~post[r].loaded)

\* C30: a synthesized placeholder poster is never stored in the poster
\* directory: every file that enters the poster directory is written by
\* save_poster_to_cache from a successfully downloaded image, a fallback
\* leaves the directory as it was, and a request that finds no file of its
\* identifier there goes to the download again.
C30_PlaceholderNeverStored ==
    /\ [][\A f \in fs'.posters \ fs.posters :
            \E r \in Callers :
                /\ post[r].pc = "download" /\ DownloadedWithId(r)'
                /\ post'[r].paths = <<CachedPath(f)>>
                /\ f.id = post[r].id]_vars
    /\ [][\A r \in Callers :
            (post[r].pc = "download" /\ FellBack(r)') =>
                fs'.posters = fs.posters]_vars
    /\ [][\A r \in Callers, name \in RandomNames, cfrac \in ClockFracs :
            (/\ ReqPosterStart(r, name, cfrac)
             /\ post[r].url
             /\ \A f \in fs.posters : f.id # post[r].id) =>
                post'[r].pc = "download"]_vars

\* a request of movie 301 was answered with the placeholder, the directory
\* holds no poster of the movie, and another request of the movie has
\* missed the cache
C30_Witness ==
    \E r \in Callers, o \in Callers :
        /\ r # o /\ post[r].id # 0 /\ post[o].id = post[r].id
        /\ post[r].pc = "done" /\ post[r].synth
        /\ post[r].answers = <<"photo:placeholder">>
        /\ \A f \in fs.posters : f.id # post[r].id
        /\ post[o].pc = "download"

----------------------------------------------------------------------------
(* Claims on the toggles and the requests in flight, under SpecReq *)

\* request r has read the toggles (line 89, right after the loading message)
ReadToggles(r) ==
    \E i \in DOMAIN req[r].answers : req[r].answers[i] = "loading"

\* C31: a request reads both toggles once, at a single point, and every
\* later decision of that request (which adapters are launched, which
\* outcome message is chosen) uses that snapshot: a /turn_links or /turn_kp
\* executed by another handler while the request is suspended does not
\* change the request's behaviour.
C31_TogglesReadOnce ==
    /\ [](\A r \in Callers :
            /\ ReadToggles(r) =>
                 /\ (rt[r].pc # "idle") <=> req[r].links_on
                 /\ (kp[r].pc # "idle") <=> req[r].kp_on
                 /\ (req[r].answers = <<"loading", "disabled">>)
                        <=> (~req[r].links_on /\ ~req[r].kp_on)
                 /\ req[r].response # NoResponse =>
                        req[r].response = Render(req[r].kinopoisk_data,
                                                 req[r].video_links,
                                                 req[r].links_on)
            /\ ~ReadToggles(r) => (rt[r].pc = "idle" /\ kp[r].pc = "idle"))
    /\ [][\A r \in Callers :
            /\ ReadToggles(r) =>
                 /\ req'[r].links_on = req[r].links_on
                 /\ req'[r].kp_on = req[r].kp_on
            /\ settings' # settings =>
                 /\ req'[r] = req[r]
                 /\ rt'[r].pc = rt[r].pc /\ kp'[r].pc = kp[r].pc]_<<apiCount, vars>>

\* a request was answered according to its snapshot after /turn_links had
\* flipped the toggle: the live value would have given another message
C31_Witness ==
    \E r \in Callers :
        /\ req[r].response # NoResponse
        /\ settings.links_on # req[r].links_on
        /\ req[r].response # Render(req[r].kinopoisk_data, req[r].video_links,
                                    settings.links_on)

----------------------------------------------------------------------------
(* Claims on the database, checked under SpecDb *)

\* no add_movie call is between its SELECT and its write
NoAddMovieRunning == \A c \in Callers : db.calls[c].pc # "selected"

\* C32: after any set of completed add_movie calls, including calls of
\* concurrent requests that interleave at their await points, the movies
\* table has exactly one row per (user_id, title) that was added, and that
\* row's count equals the number of add_movie calls made for that pair.
C32_OneRowPerMovie ==
    NoAddMovieRunning =>
        \A u \in Users, t \in Titles :
            LET rows == Matching(db.movies, u, t)
            IN  IF db.added[u][t] = 0 THEN rows = {}
                ELSE /\ Cardinality(rows) = 1
                     /\ \A i \in rows : db.movies[i].count = db.added[u][t]

\* the call of caller c makes a step
DbActs(c) == db'.calls[c] # db.calls[c]

\* the call of caller c returns what it read
DbReturns(c, op) ==
    DbActs(c) /\ db'.calls[c].pc = "done" /\ db'.calls[c].op = op

\* C33: history and statistics are isolated per user: add_search and
\* add_movie for user A leave every row of every other user unchanged, and
\* get_search_history(B) and get_movie_stats(B) return only rows recorded
\* for B, whatever operations were run for other users.
C33_PerUserIsolation ==
    /\ [][\A c \in Callers, u \in Users :
            (DbActs(c) /\ db'.calls[c].user_id # u) =>
                /\ RowsOf(db'.movies, u) = RowsOf(db.movies, u)
                /\ RowsOf(db'.searches, u) = RowsOf(db.searches, u)]_vars
    /\ [][\A c \in Callers :
            DbReturns(c, "stats") =>
                LET ret == db'.calls[c].ret
                    mine == RowsOf(db.movies, db'.calls[c].user_id)
                IN  /\ Len(ret) = Len(mine)
                    /\ \A j \in DOMAIN mine :
                          \E i \in DOMAIN ret :
                              /\ ret[i].title = mine[j].title
                              /\ ret[i].count = mine[j].count]_vars
    /\ [][\A c \in Callers :
            DbReturns(c, "history") =>
                LET ret == db'.calls[c].ret
                    mine == RowsOf(db.searches, db'.calls[c].user_id)
                IN  /\ Len(ret) = Len(mine)
                    /\ \A j \in DOMAIN mine :
                          ret[Len(mine) + 1 - j].query = mine[j].query]_vars

\* user 2 is given their one movie while the table holds a movie of the
\* same title recorded for user 1
C33_Witness ==
    \E c \in Callers :
        /\ db.calls[c].op = "stats" /\ db.calls[c].user_id = 2
        /\ db.calls[c].ret = <<[title |-> "x", count |-> 1]>>
        /\ \E i \in DOMAIN db.movies :
              db.movies[i].user_id = 1 /\ db.movies[i].title = "x"

----------------------------------------------------------------------------
(* Claims on the PID file, checked under SpecHost *)

\* the live processes that are past check_pid_file
PastCheck == { p \in Pids : host.inst[p] = "running" }

\* C34: the PID file gives mutual exclusion of bot instances: at no time
\* are two live processes both past check_pid_file, for every sequence and
\* interleaving of start attempts, rejected starts and shutdowns; a start
\* attempt that is rejected because another instance is alive leaves that
\* instance's PID file in place.
C34_SingleInstance ==
    /\ [](Cardinality(PastCheck) <= 1)
    /\ [][host'.rejected => host'.pidFile = host.pidFile]_vars

----------------------------------------------------------------------------
(* Claims on the temporary poster files, checked under SpecDeliver *)

\* request o is in flight with a temporary poster file it created and has
\* not sent yet
HoldsTemporary(o) ==
    /\ post[o].made /\ post[o].loaded
    /\ post[o].pc \in {"send_delete", "send_photo"}
    /\ post[o].paths = <<TempPath(post[o].name)>>

\* the temporary files named as the one of request o
TemporaryOf(fsys, o) == { t \in fsys.tmp : t.name = post[o].name }

\* C35: temporary poster files of concurrent requests never interfere: a
\* request never overwrites or deletes a temporary poster file that another
\* in-flight request created and has not yet sent.
C35_TemporaryFilesApart ==
    [][\A r \in Callers, o \in Callers :
          (r # o /\ post'[r] # post[r] /\ HoldsTemporary(o)) =>
              TemporaryOf(fs', o) = TemporaryOf(fs, o)]_vars

\* the files of the poster directory that belong to movie id
PostersOf(id) == { f \in fs.posters : f.id = id }

\* C36: in every reachable state the poster directory holds at most one
\* file per movie identifier, including after concurrent requests for the
\* same movie that both miss the poster cache.
C36_OnePosterPerMovie ==
    \A id \in MovieIds : Cardinality(PostersOf(id)) <= 1

----------------------------------------------------------------------------
(* Claims on the loading message *)

\* C37: every request that sends the 'searching' loading message deletes
\* that message exactly once before the request ends, on every path
\* (sources disabled, text-only answer, photo answer, photo-send failure).
C37_LoadingMessageDeleted ==
    \A r \in Callers :
        (req[r].pc = "done" /\ ReadToggles(r)) => req[r].deletes = 1

----------------------------------------------------------------------------
(* Claims on the clearing of the caches, checked under SpecClear *)

\* clear_cache has just been called with the arguments flags
Cleared(flags) ==
    keyIn'.n # keyIn.n /\ keyIn'.cmd = "call" /\ keyIn'.flags = flags

\* every get of both namespaces and every poster lookup is a miss
AllMiss ==
    /\ \A q \in Queries :
          /\ ~get_movie_from_cache(q).ret.hit
          /\ ~get_rutube_from_cache(q).ret.hit
    /\ \A id \in MovieIds, cfrac \in ClockFracs :
          \A first \in FirstListed(fs.posters, id) :
              ~get_cached_poster_path(fs.posters, id, first, cfrac).ret.found

C39_NonAdminRefused ==
    [][(/\ keyIn'.n # keyIn.n
        /\ keyIn'.cmd \in ClearCommands
        /\ keyIn'.from_user \notin ADMIN_IDS
        /\ keyIn'.chat \notin ADMIN_IDS) =>
            /\ keyIn'.answer \in {"refused", "no_user"}
            /\ movieFile' = movieFile
            /\ rutubeFile' = rutubeFile
            /\ fs' = fs]_vars

\* a command of a sender who is no admin was refused while all three
\* caches held something
C39_Witness ==
    /\ keyIn.cmd \in ClearCommands /\ keyIn.answer = "refused"
    /\ keyIn.from_user = 7 /\ keyIn.chat = 7
    /\ keyIn.had.movie /\ keyIn.had.rutube /\ keyIn.had.posters
    /\ EntriesOf(movieFile) # EmptyDict
    /\ EntriesOf(rutubeFile) # EmptyDict
    /\ fs.posters # {}

====
